---- MODULE Spec2Model ----
(***************************************************************************)
(* SentinelAI behavioural anomaly pipeline: event ingestion, the findings  *)
(* store (Anomaly / MitreMapping / MitigationStrategy documents), case     *)
(* management operations, isolation commands, maintenance scripts, and the *)
(* training / persistence of the model artifact (anomaly_detector.pkl).    *)
(*                                                                         *)
(* Documents are Beanie documents (backend/database.py) whose fields are   *)
(* the ones declared in backend/models.py.  Raw outlier scores are kept in *)
(* thousandths (-1000 is -1.0) so that the arithmetic stays integral.      *)
(***************************************************************************)
EXTENDS Integers, Sequences, FiniteSets, TLC

\* ---------------------------------------------------------------- bounds
MaxEvents == 1          \* events ingested in one behaviour
MaxTrainRuns == 2       \* concurrent training requests started in one behaviour
MaxRetrains == 1        \* training requests served between ingestions in one behaviour
MaxScriptRuns == 1      \* runs of the verify_fix maintenance script
MaxRawScore == 700      \* raw outlier scores range over -0.700 .. 0.700
MaxDeviating == 2       \* features of a fingerprint that differ from the reference table
MaxAttributed == 2      \* attributed features handed to the technique mapper
MaxTechniques == 3      \* technique mappings handed to the mitigation planner
MaxHistory == 2         \* stored events the feature extractor is run on
MaxAddressed == 1       \* actions of a plan, from its first, that implement requests address
MaxCollected == 3       \* events the agent collects in one behaviour
batch_size == 2         \* config.json 'batch_size' of the agent

\* pickle.dump streams the artifact through several write() calls; the file
\* is complete once this many chunks are on disk.
ArtifactChunks == 2

\* ------------------------------------------------------ program constants

Employees == {"e1", "e2"}
UnknownEmployee == "ghost"
Trainers == {"t1", "t2"}
NoOne == "none"

\* backend/models.py BehavioralEvent: the attributes an event document has.
BehavioralEventFields ==
    {"id", "employee_id", "event_type", "timestamp", "location", "ip_address",
     "port", "file_path", "action", "success", "event_metadata"}

\* backend/models.py MitigationStrategy: the attributes a strategy document has.
MitigationStrategyFields ==
    {"id", "anomaly_id", "priority", "category", "action", "description",
     "implemented", "implemented_at", "implemented_by"}

\* backend/schemas.py MitigationStrategyBase: fields without a default.
MitigationStrategyRequired == {"priority", "category", "action", "description"}

\* keyword arguments of the hard-coded strategy of the policy bypass
PolicyStrategyKwargs ==
    {"anomaly_id", "strategy_name", "description", "action_type", "status"}

EventTypes == {"login", "policy_violation"}

\* schemas.AnomalyResolve.status is an unvalidated str
ResolveStatuses == {"open", "resolved", "closed"}

FindingStatuses == {"open", "investigating", "resolved", "false_positive"}

\* ml/feature_engineering.py get_feature_names
FeatureNames ==
    << "avg_login_hour", "login_hour_std", "unique_locations_count",
       "avg_location_distance", "unique_ports_count", "avg_port_number",
       "file_access_rate", "sensitive_file_access_rate",
       "privilege_escalation_rate", "firewall_change_rate",
       "network_activity_volume", "failed_login_rate",
       "weekday_activity_ratio", "night_activity_ratio" >>

\* raw outlier scores (thousandths) the scorer may return
RawScores == {-306, 105}

\* highest-contribution features the attribution may return
TopFeatures == {"avg_login_hour"}

\* technique lists the mapper may return (ids in confidence order)
MappingResults == { <<"T1078", "T1110">> }

PipelineSteps == {"features", "score", "explain", "map", "plan"}

\* ------------------------------------------------------------------ state
VARIABLES
    events,                 \* BehavioralEvent collection (sequence, in insertion order)
    anomalies,              \* Anomaly collection
    mitre_mappings,         \* MitreMapping collection
    mitigation_strategies,  \* MitigationStrategy collection
    fingerprints,           \* batches of BehavioralFingerprint documents stored by training
    is_isolated,            \* Employee.is_isolated per employee
    nextId,                 \* id of the next Anomaly document
    modelFile,              \* models/anomaly_detector.pkl on disk
    trainer,                \* per training request: position and bookkeeping
    loop,                   \* the request running a synchronous section of the event loop
    trainRuns,              \* training requests started so far
    lastCall,               \* outcome of the ingestion or training call just served
    lastLoad,               \* outcome of the last load_model of the reader process
    script,                 \* position of the verify_fix script
    scriptRuns,             \* runs of the verify_fix script started so far
    probe,                  \* the last call of a library function: its arguments and result
    engine,                 \* the MitigationEngine instance plans are asked of: its tables
    agent                   \* the monitoring agent on the employee's machine: its queue and sends

vars == << events, anomalies, mitre_mappings, mitigation_strategies, fingerprints,
           is_isolated, nextId, modelFile, trainer, loop, trainRuns, lastCall,
           lastLoad, script, scriptRuns, probe, engine, agent >>

storeVars == << events, anomalies, mitre_mappings, mitigation_strategies, nextId >>
trainVars == << modelFile, trainer, loop, trainRuns, fingerprints >>

\* ------------------------------------------------------- model artifact
\* No anomaly_detector.pkl in model_path.
NoFile == [exists |-> FALSE, gen |-> 0, written |-> 0]

\* open(model_file, 'wb'): the file exists and is empty.
Truncated(g) == [exists |-> TRUE, gen |-> g, written |-> 0]

\* one more write() of pickle.dump has reached the file
Flushed(f) == [f EXCEPT !.written = @ + 1]

IsComplete(f) == f.exists /\ f.written = ArtifactChunks

\* a load_model that takes the file for granted: no os.path.exists test and
\* no except branch
load_model_unguarded(f) == [ok |-> TRUE, gen |-> f.gen, why |-> "loaded"]

\* AnomalyDetector.load_model: False when the file is missing, False when
\* pickle.load raises on a truncated file (the except branch), else the artifact.
load_model(f) ==
    IF ~f.exists THEN [ok |-> FALSE, gen |-> 0, why |-> "missing"]
    ELSE IF f.written # ArtifactChunks THEN [ok |-> FALSE, gen |-> 0, why |-> "unreadable"]
    ELSE [ok |-> TRUE, gen |-> f.gen, why |-> "loaded"]

\* AnomalyDetector._calculate_risk_score, raw score in thousandths:
\* int(np.clip((0.5 - s) * 100, 0, 100))
Clip(x, lo, hi) == IF x < lo THEN lo ELSE IF x > hi THEN hi ELSE x

\* nearest integer to x / 10, ties to the even neighbour (round())
Round10(x) ==
    LET q == x \div 10
        r == x % 10
    IN  IF r < 5 THEN q
        ELSE IF r > 5 THEN q + 1
        ELSE IF q % 2 = 0 THEN q ELSE q + 1

\* a risk mapping that rounds to the nearest integer instead of int()
calculate_risk_score_rounded(s) == Clip(Round10(500 - s), 0, 100)

\* a risk mapping without the np.clip
calculate_risk_score_unclipped(s) == (500 - s) \div 10

calculate_risk_score(s) == Clip(500 - s, 0, 1000) \div 10

\* thresholds compared with > instead of >=
get_risk_level_strict(risk_score) ==
    IF risk_score > 80 THEN "critical"
    ELSE IF risk_score > 60 THEN "high"
    ELSE IF risk_score > 40 THEN "medium"
    ELSE "low"

\* AnomalyDetector._get_risk_level
get_risk_level(risk_score) ==
    IF risk_score >= 80 THEN "critical"
    ELSE IF risk_score >= 60 THEN "high"
    ELSE IF risk_score >= 40 THEN "medium"
    ELSE "low"

\* a predict_single that derives the level from the raw score
predict_single_level_of_raw(det, is_anomaly, raw) ==
    IF ~det.ok
    THEN [error |-> "ModelNotTrained", is_anomaly |-> FALSE, anomaly_score |-> 0,
          risk_score |-> 0, risk_level |-> "low"]
    ELSE [error |-> "none", is_anomaly |-> is_anomaly, anomaly_score |-> raw,
          risk_score |-> calculate_risk_score(raw),
          risk_level |-> get_risk_level(raw)]

\* AnomalyDetector.predict / predict_single on a detector whose load gave `det`:
\* raises ValueError("Model not trained...") when isolation_forest is None.
predict_single(det, is_anomaly, raw) ==
    IF ~det.ok
    THEN [error |-> "ModelNotTrained", is_anomaly |-> FALSE, anomaly_score |-> 0,
          risk_score |-> 0, risk_level |-> "low"]
    ELSE [error |-> "none", is_anomaly |-> is_anomaly, anomaly_score |-> raw,
          risk_score |-> calculate_risk_score(raw),
          risk_level |-> get_risk_level(calculate_risk_score(raw))]

\* ------------------------------------------------------ category lookups
\* ml/mitre_mapper.py determine_anomaly_type (type_mapping on the top feature)
determine_anomaly_type(top_feature) ==
    CASE top_feature = "avg_login_hour" -> "unusual_login_time"
      [] top_feature = "login_hour_std" -> "unusual_login_pattern"
      [] top_feature = "unique_locations_count" -> "unusual_location"
      [] top_feature = "avg_location_distance" -> "location_variance"
      [] top_feature = "unique_ports_count" -> "unusual_port_usage"
      [] top_feature = "avg_port_number" -> "unusual_port"
      [] top_feature = "file_access_rate" -> "unusual_file_access"
      [] top_feature = "sensitive_file_access_rate" -> "sensitive_file_access"
      [] top_feature = "privilege_escalation_rate" -> "privilege_escalation"
      [] top_feature = "firewall_change_rate" -> "firewall_change"
      [] top_feature = "network_activity_volume" -> "network_activity"
      [] top_feature = "failed_login_rate" -> "failed_login"
      [] top_feature = "weekday_activity_ratio" -> "unusual_schedule"
      [] top_feature = "night_activity_ratio" -> "night_activity"
      [] OTHER -> "behavioral_anomaly"

\* routes/agent.py receive_batch_events: anomaly_type_map on the top feature
anomaly_type_map(top_feature) ==
    CASE top_feature = "avg_login_hour" -> "unusual_login"
      [] top_feature = "avg_location_distance" -> "unusual_location"
      [] top_feature = "unique_ports_count" -> "unusual_port"
      [] top_feature = "sensitive_file_access_rate" -> "sensitive_files"
      [] top_feature = "privilege_escalation_rate" -> "privilege_escalation"
      [] OTHER -> "behavioral_anomaly"

\* ------------------------------------------------------------ documents
\* a column default other than the initial state of the life cycle
DefaultStatusInvestigating == "investigating"

\* models.Anomaly(...): status is not passed by routes/events.py and takes the
\* column default "open" (models.py Anomaly.status).
DefaultStatus == "open"

\* top_features of an Anomaly created without any
NoTopFeature == "none"

\* top_feature is the 'feature' of the first entry of top_features.
NewAnomaly(id, employee_id, score, level, risk, trigger, type, status, top) ==
    [id |-> id, employee_id |-> employee_id, anomaly_score |-> score,
     risk_level |-> level, risk_score |-> risk, trigger_event_id |-> trigger,
     anomaly_type |-> type, status |-> status, top_feature |-> top]

\* A MitreMapping document; no operation addresses one by its own id.
NewMapping(anomaly_id, technique_id) ==
    [anomaly_id |-> anomaly_id, technique_id |-> technique_id]

\* A MitigationStrategy document; its id is the pair (anomaly it was created
\* for, position in the plan), which is unique as ObjectIds are.
\* `strategy` holds the keyword arguments priority, category, action and
\* description; the implementation columns take their defaults.
NotImplementedBy == "none"

NewStrategy(anomaly_id, seq, strategy) ==
    [id |-> << anomaly_id, seq >>, anomaly_id |-> anomaly_id,
     priority |-> strategy.priority, category |-> strategy.category,
     action |-> strategy.action, description |-> strategy.description,
     implemented |-> FALSE, implemented_at |-> "none",
     implemented_by |-> NotImplementedBy]

\* the documents created by the two `for ...: await doc.create()` loops
MappingDocs(anomaly_id, techs) ==
    { NewMapping(anomaly_id, techs[i]) : i \in 1..Len(techs) }

StrategyDocs(anomaly_id, plan) ==
    { NewStrategy(anomaly_id, i, plan[i]) : i \in 1..Len(plan) }

\* getattr on an event document: AttributeError for a name that is no field
HasAttr(fields, name) == name \in fields

\* models.MitigationStrategy(**kwargs).create(): needs every required field
StrategyKwargsAccepted(kwargs) == MitigationStrategyRequired \subseteq kwargs

\* the pipeline body without its try/except: whatever is raised leaves
PropagatesUncaught(step) == step # "none"

\* `except Exception as e: print(...)` around the whole pipeline body: does an
\* exception raised at `step` leave process_event_anomaly?
Propagates(step) == FALSE

\* what a pipeline run leaves behind
Effects(anoms, maps, strats, nid, raised, consulted, created) ==
    [anoms |-> anoms, maps |-> maps, strats |-> strats, nid |-> nid,
     raised |-> raised, consulted |-> consulted, created |-> created]

\* the strategy the rule-based bypass constructs: of the four strategy
\* fields its keyword arguments give the description only
PolicyStrategy ==
    [priority |-> 0, category |-> "none", action |-> "none",
     description |-> "The agent has already blocked the process. Recommend security awareness training for the employee."]

\* the Anomaly the rule-based bypass constructs
PolicyAnomaly(nid, employee_id, trigger) ==
    NewAnomaly(nid, employee_id, -1000, "critical", 100, trigger, "policy_violation",
               DefaultStatus, "policy_violation")

\* routes/events.py process_event_anomaly, step 0: the rule-based bypass
PolicyBypass(employee_id, ev, nid) ==
    IF ~HasAttr(BehavioralEventFields, "description")
    THEN \* db_event.description in the first print raises AttributeError
         Effects(anomalies, mitre_mappings, mitigation_strategies, nid,
                 "policy_description", FALSE, 0)
    ELSE LET a == PolicyAnomaly(nid, employee_id, ev.id)
             m == NewMapping(nid, "T1204.002")
         IN  IF StrategyKwargsAccepted(PolicyStrategyKwargs)
             THEN Effects(anomalies \cup {a}, mitre_mappings \cup {m},
                          mitigation_strategies \cup {NewStrategy(nid, 1, PolicyStrategy)},
                          nid + 1, "none", FALSE, nid)
             ELSE Effects(anomalies \cup {a}, mitre_mappings \cup {m},
                          mitigation_strategies, nid + 1, "policy_strategy", FALSE, nid)

\* The statistical path shared by routes/events.py process_event_anomaly
\* (second_load: it retries load_model when the constructor's load failed) and
\* routes/agent.py receive_batch_events.  `in` holds what the scorer, the
\* attribution, the mapper and the planner return, and the step that raises.
Statistical(employee_id, trigger, nid, in, type, status) ==
    LET det  == load_model(modelFile)          \* AnomalyDetector() loads in __init__
        none == Effects(anomalies, mitre_mappings, mitigation_strategies, nid,
                        "none", TRUE, 0)
        pred == predict_single(det, in.is_anomaly, in.raw)
        a    == NewAnomaly(nid, employee_id, pred.anomaly_score, pred.risk_level,
                           pred.risk_score, trigger, type, status, in.top)
        ms   == MappingDocs(nid, in.techs)
        ss   == StrategyDocs(nid, in.plan)
    IN  IF in.failAt = "features"
        THEN [none EXCEPT !.raised = "features", !.consulted = FALSE]
        ELSE IF ~det.ok THEN none
        ELSE IF in.failAt = "score" THEN [none EXCEPT !.raised = "score"]
        ELSE IF ~pred.is_anomaly THEN none
        ELSE IF in.failAt = "explain" THEN [none EXCEPT !.raised = "explain"]
        ELSE IF in.failAt = "map"
        THEN Effects(anomalies \cup {a}, mitre_mappings, mitigation_strategies,
                     nid + 1, "map", TRUE, nid)
        ELSE IF in.failAt = "plan"
        THEN Effects(anomalies \cup {a}, mitre_mappings \cup ms, mitigation_strategies,
                     nid + 1, "plan", TRUE, nid)
        ELSE Effects(anomalies \cup {a}, mitre_mappings \cup ms,
                     mitigation_strategies \cup ss, nid + 1, "none", TRUE, nid)

\* routes/events.py process_event_anomaly (the second definition, which is the
\* one bound to the name at import time)
process_event_anomaly(employee_id, ev, nid, in) ==
    IF ev.event_type = "policy_violation"
    THEN PolicyBypass(employee_id, ev, nid)
    ELSE Statistical(employee_id, ev.id, nid, in,
                     determine_anomaly_type(in.top), DefaultStatus)

\* ---------------------------------------------------- feature engineering
\* ml/feature_engineering.py.  Feature values are kept in thousandths (9.0 is
\* 9000); quotients are truncated to that resolution.
Milli(n) == n * 1000

\* get_default_fingerprint
get_default_fingerprint ==
    [avg_login_hour |-> 9000, login_hour_std |-> 2000,
     unique_locations_count |-> 1000, avg_location_distance |-> 0,
     unique_ports_count |-> 3000, avg_port_number |-> 443000,
     file_access_rate |-> 5000, sensitive_file_access_rate |-> 100,
     privilege_escalation_rate |-> 500, firewall_change_rate |-> 0,
     network_activity_volume |-> 10000, failed_login_rate |-> 0,
     weekday_activity_ratio |-> 800, night_activity_ratio |-> 50]

\* `return None`
NoneResult == [none |-> TRUE]

\* stored BehavioralEvent documents the extractor may find: age_hours is
\* now - timestamp, port 0 and location "" stand for None, sensitive says
\* whether file_path matches one of sensitive_keywords
NoLocation == ""
StoredEvents ==
    { [employee_id |-> "e1", event_type |-> "login", age_hours |-> 2, hour |-> 3,
       weekday |-> TRUE, location |-> "HQ", port |-> 0, sensitive |-> FALSE,
       success |-> TRUE],
      [employee_id |-> "e1", event_type |-> "login", age_hours |-> 30, hour |-> 23,
       weekday |-> FALSE, location |-> "Remote", port |-> 22, sensitive |-> FALSE,
       success |-> FALSE],
      [employee_id |-> "e1", event_type |-> "file_access", age_hours |-> 200, hour |-> 10,
       weekday |-> TRUE, location |-> NoLocation, port |-> 0, sensitive |-> TRUE,
       success |-> TRUE],
      [employee_id |-> "e2", event_type |-> "network", age_hours |-> 1, hour |-> 12,
       weekday |-> TRUE, location |-> NoLocation, port |-> 443, sensitive |-> FALSE,
       success |-> TRUE],
      [employee_id |-> "e1", event_type |-> "firewall", age_hours |-> 1000, hour |-> 5,
       weekday |-> TRUE, location |-> "HQ", port |-> 8080, sensitive |-> FALSE,
       success |-> TRUE] }

\* the query: BehavioralEvent.employee_id == employee_id and timestamp >= cutoff
InWindow(history, employee_id, hours) ==
    LET Keep(e) == e.employee_id = employee_id /\ e.age_hours <= hours
    IN  SelectSeq(history, Keep)

RECURSIVE SumOf(_, _)
SumOf(seq, field) ==
    IF seq = << >> THEN 0 ELSE Head(seq)[field] + SumOf(Tail(seq), field)

\* integer square root
Isqrt(n) == CHOOSE r \in 0..2400 : r * r <= n /\ n < (r + 1) * (r + 1)

\* pandas Series.std(): sample standard deviation (ddof = 1), to hundredths
RECURSIVE SquaredDeviations(_, _, _)
SquaredDeviations(seq, n, total) ==
    IF seq = << >> THEN 0
    ELSE (n * Head(seq).hour - total) * (n * Head(seq).hour - total)
            + SquaredDeviations(Tail(seq), n, total)

SampleStd(logins) ==
    LET n == Len(logins)
    IN  10 * Isqrt((SquaredDeviations(logins, n, SumOf(logins, "hour")) * 10000)
                        \div (n * n * (n - 1)))

\* count / max(window / unit, 1), with window and unit in the same time unit
PerUnit(count, window, unit) ==
    IF window <= unit THEN Milli(count) ELSE (Milli(count) * unit) \div window

\* the feature block shared by calculate_behavioral_fingerprint (window in
\* days, unit 1) and extract_features_from_recent_events (window in hours,
\* unit 24) once the window holds events
Features(evs, baseline_location, window, unit) ==
    LET IsLogin(e)    == e.event_type = "login"
        IsFile(e)     == e.event_type = "file_access"
        IsSensitive(e) == e.event_type = "file_access" /\ e.sensitive
        IsPriv(e)     == e.event_type = "privilege_escalation"
        IsFirewall(e) == e.event_type = "firewall"
        IsNetwork(e)  == e.event_type = "network"
        IsFailed(e)   == e.event_type = "login" /\ ~e.success
        HasLocation(e) == e.location # NoLocation
        Elsewhere(e)  == e.location # NoLocation /\ e.location # baseline_location
        HasPort(e)    == e.port # 0
        IsWeekday(e)  == e.weekday
        IsNight(e)    == e.hour >= 22 \/ e.hour < 6
        Count(P(_))   == Len(SelectSeq(evs, P))
        logins        == SelectSeq(evs, IsLogin)
        ported        == SelectSeq(evs, HasPort)
    IN  [avg_login_hour |->
            IF Len(logins) > 0 THEN Milli(SumOf(logins, "hour")) \div Len(logins) ELSE 9000,
         login_hour_std |->
            IF Len(logins) > 0
            THEN (IF Len(logins) > 1 THEN SampleStd(logins) ELSE 0)
            ELSE 2000,
         unique_locations_count |->
            Milli(Cardinality({ evs[i].location : i \in { j \in 1..Len(evs) : HasLocation(evs[j]) } })),
         avg_location_distance |->
            IF baseline_location # NoLocation /\ Count(HasLocation) > 0
            THEN Milli(Count(Elsewhere)) \div Count(HasLocation)
            ELSE 0,
         unique_ports_count |->
            Milli(Cardinality({ ported[i].port : i \in 1..Len(ported) })),
         avg_port_number |->
            IF Len(ported) > 0 THEN Milli(SumOf(ported, "port")) \div Len(ported) ELSE 0,
         file_access_rate |-> PerUnit(Count(IsFile), window, unit),
         sensitive_file_access_rate |->
            IF Count(IsFile) > 0 THEN PerUnit(Count(IsSensitive), window, unit) ELSE 0,
         privilege_escalation_rate |-> PerUnit(Count(IsPriv), window, unit),
         firewall_change_rate |-> PerUnit(Count(IsFirewall), window, 7 * unit),
         network_activity_volume |-> PerUnit(Count(IsNetwork), window, unit),
         failed_login_rate |-> PerUnit(Count(IsFailed), window, unit),
         weekday_activity_ratio |->
            IF Len(evs) > 0 THEN Milli(Count(IsWeekday)) \div Len(evs) ELSE 700,
         night_activity_ratio |->
            IF Len(evs) > 0 THEN Milli(Count(IsNight)) \div Len(evs) ELSE 0]

\* a fingerprint computation without the `if not events` early return
calculate_behavioral_fingerprint_no_default(history, employee_id, baseline_location, days_back) ==
    IF employee_id \notin Employees THEN NoneResult
    ELSE Features(InWindow(history, employee_id, days_back * 24), baseline_location,
                  days_back, 1)

\* calculate_behavioral_fingerprint(db, employee_id, days_back)
calculate_behavioral_fingerprint(history, employee_id, baseline_location, days_back) ==
    IF employee_id \notin Employees THEN NoneResult
    ELSE LET evs == InWindow(history, employee_id, days_back * 24)
         IN  IF evs = << >> THEN get_default_fingerprint
             ELSE Features(evs, baseline_location, days_back, 1)

\* extract_features_from_recent_events(db, employee_id, hours_back)
extract_features_from_recent_events(history, employee_id, baseline_location, hours_back) ==
    LET evs == InWindow(history, employee_id, hours_back)
    IN  IF evs = << >> THEN get_default_fingerprint
        ELSE Features(evs,
                      IF employee_id \in Employees THEN baseline_location ELSE NoLocation,
                      hours_back, 24)

\* ---------------------------------------------------------- explainability
\* ml/explainability.py.  Contributions are kept in thousandths, as feature
\* values are.
Abs(x) == IF x < 0 THEN 0 - x ELSE x

FeatureNameSet == { FeatureNames[i] : i \in 1..Len(FeatureNames) }

\* sorted(items, key=..., reverse=True), given the key of every item:
\* descending by key, items of equal key in their original order (the sort
\* is stable).  OrderUpTo(i, keys) is the order of the first i items.
RECURSIVE OrderUpTo(_, _)
OrderUpTo(i, keys) ==
    IF i = 0 THEN << >>
    ELSE LET sorted == OrderUpTo(i - 1, keys)
             ahead  == Cardinality({ k \in 1..Len(sorted) : keys[sorted[k]] >= keys[i] })
         IN  SubSeq(sorted, 1, ahead) \o << i >> \o SubSeq(sorted, ahead + 1, Len(sorted))

RECURSIVE Permuted(_, _)
Permuted(items, order) ==
    IF order = << >> THEN << >>
    ELSE << items[Head(order)] >> \o Permuted(items, Tail(order))

SortedByKeys(items, keys) == Permuted(items, OrderUpTo(Len(items), keys))

RECURSIVE Reversed(_)
Reversed(items) ==
    IF items = << >> THEN << >> ELSE Append(Reversed(Tail(items)), Head(items))

FirstN(items, n) == SubSeq(items, 1, IF Len(items) < n THEN Len(items) ELSE n)

\* key=lambda x: abs(x[1])
RECURSIVE AbsContributions(_)
AbsContributions(items) ==
    IF items = << >> THEN << >>
    ELSE << Abs(Head(items).shap_value) >> \o AbsContributions(Tail(items))

\* key=lambda x: x[1]
RECURSIVE SignedContributions(_)
SignedContributions(items) ==
    IF items = << >> THEN << >>
    ELSE << Head(items).shap_value >> \o SignedContributions(Tail(items))

\* the items sorted by descending absolute contribution
Ranked(items) == SortedByKeys(items, AbsContributions(items))

\* one entry of top_features
TopFeature(name, value, shap_value) ==
    [feature |-> name, value |-> value, shap_value |-> shap_value,
     impact |-> IF shap_value > 0 THEN "increases" ELSE "decreases"]

\* the (feature, contribution) items in feature declaration order
RECURSIVE ItemsFrom(_, _, _)
ItemsFrom(i, contributions, features) ==
    IF i > Len(FeatureNames) THEN << >>
    ELSE << TopFeature(FeatureNames[i], features[FeatureNames[i]],
                       contributions[FeatureNames[i]]) >>
            \o ItemsFrom(i + 1, contributions, features)

Items(contributions, features) == ItemsFrom(1, contributions, features)

\* a ranking that forgets abs() in the sort key
get_top_features_signed(shap_values, features) ==
    LET items == Items(shap_values, features)
    IN  FirstN(SortedByKeys(items, SignedContributions(items)), 5)

\* ExplainabilityEngine._get_top_features (top_n = 5)
get_top_features(shap_values, features) ==
    FirstN(Ranked(Items(shap_values, features)), 5)

\* _fallback_explanation: normal_values
normal_values ==
    [avg_login_hour |-> 9000, login_hour_std |-> 2000,
     unique_locations_count |-> 1000, avg_location_distance |-> 0,
     unique_ports_count |-> 3000, avg_port_number |-> 443000,
     file_access_rate |-> 5000, sensitive_file_access_rate |-> 100,
     privilege_escalation_rate |-> 500, firewall_change_rate |-> 0,
     network_activity_volume |-> 10000, failed_login_rate |-> 0,
     weekday_activity_ratio |-> 800, night_activity_ratio |-> 50]

\* _fallback_explanation: the pseudo contribution of one feature
pseudo_shap(value, normal) ==
    LET deviation == IF normal # 0 THEN (Abs(value - normal) * 1000) \div Abs(normal)
                     ELSE Abs(value)
    IN  deviation * (IF value > normal THEN 1 ELSE -1)

PseudoShapValues(features) ==
    [name \in FeatureNameSet |-> pseudo_shap(features[name], normal_values[name])]

\* a fallback whose sort puts features of equal deviation in reverse order
fallback_explanation_reversed_ties(features) ==
    [shap_values |-> PseudoShapValues(features),
     top_features |->
        FirstN(Ranked(Reversed(Items(PseudoShapValues(features), features))), 5)]

\* ExplainabilityEngine._fallback_explanation
fallback_explanation(features) ==
    [shap_values |-> PseudoShapValues(features),
     top_features |->
        FirstN(Ranked(Items(PseudoShapValues(features), features)), 5)]

\* how the statistical attribution behaves in one call of explain
ExplainModes == {"shap", "unavailable", "raises"}

\* ExplainabilityEngine.explain: `shap` is what explainer.shap_values returns
explain(mode, features, shap) ==
    IF mode = "unavailable" THEN fallback_explanation(features)     \* self.explainer is None
    ELSE IF mode = "raises" THEN fallback_explanation(features)     \* the except branch
    ELSE [shap_values |-> shap, top_features |-> get_top_features(shap, features)]

\* --------------------------------------------------------------- training
\* routes/ml_ops.py train_model: detector.train(X, contamination=0.1, n_clusters=5)
NClusters == 5

\* numbers of Employee documents (one fingerprint each) a training request finds
Populations == {0, 2, 5}

\* routes/ml_ops.py train_model: HTTP 400 when `len(employees) < 1` or
\* `len(fingerprints) < 1` (every employee yields a fingerprint, so the two
\* counts are the same)
Refused(n_samples) == n_samples < 1

TrainSteps == {"standardize", "fit_forest", "fit_kmeans", "write"}

\* KMeans.fit raises ValueError when n_samples < n_clusters
KMeansFits(n_samples) == n_samples >= NClusters

\* the step at which train() raises, given the injected failure and the population
FirstFailure(failAt, n_samples) ==
    IF failAt \in {"standardize", "fit_forest"} THEN failAt
    ELSE IF failAt = "fit_kmeans" \/ ~KMeansFits(n_samples) THEN "fit_kmeans"
    ELSE failAt

RECURSIVE FlushedN(_, _)
FlushedN(f, k) == IF k = 0 THEN f ELSE FlushedN(Flushed(f), k - 1)

\* AnomalyDetector.train + save_model run to the end or to the failing step:
\* the file on disk afterwards.  k chunks reach the disk before a failing write.
TrainResult(f, g, failAt, n_samples, k) ==
    LET fail == FirstFailure(failAt, n_samples)
    IN  IF fail \in {"standardize", "fit_forest", "fit_kmeans"} THEN f
        ELSE IF fail = "write" THEN FlushedN(Truncated(g), k)
        ELSE FlushedN(Truncated(g), ArtifactChunks)

\* ------------------------------------------------------ mitigation plans
\* ml/mitigation_engine.py.  The tables MitigationEngine.__init__ builds.
TemplateCategories ==
    { "unusual_login_time", "location_variance", "unusual_port",
      "sensitive_file_access", "privilege_escalation", "firewall_change", "failed_login",
      "network_activity", "night_activity", "high_cpu_usage",
      "high_memory_usage" }

TemplateFor(anomaly_type) ==
    CASE anomaly_type = "unusual_login_time" ->
        << [priority |-> 1, category |-> "immediate", action |-> "Verify employee activity",
           description |-> "Contact employee to confirm the login was legitimate"],
           [priority |-> 2, category |-> "immediate", action |-> "Review access logs",
           description |-> "Check all activities performed during the unusual login session"],
           [priority |-> 3, category |-> "short_term", action |-> "Enable MFA alerts",
           description |-> "Configure alerts for logins outside normal hours"] >>
      [] anomaly_type = "location_variance" ->
        << [priority |-> 1, category |-> "immediate", action |-> "Verify location",
           description |-> "Confirm employee is traveling or working from new location"],
           [priority |-> 2, category |-> "immediate", action |-> "Check for VPN usage",
           description |-> "Verify if location change is due to VPN or proxy"],
           [priority |-> 3, category |-> "short_term", action |-> "Implement geo-fencing",
           description |-> "Set up alerts for logins from unexpected geographic locations"] >>
      [] anomaly_type = "unusual_port" ->
        << [priority |-> 1, category |-> "immediate", action |-> "Block suspicious port",
           description |-> "Temporarily block the unusual port pending investigation"],
           [priority |-> 2, category |-> "immediate", action |-> "Analyze network traffic",
           description |-> "Review all traffic on the unusual port for malicious activity"],
           [priority |-> 3, category |-> "short_term", action |-> "Update firewall rules",
           description |-> "Restrict port access to authorized users only"] >>
      [] anomaly_type = "sensitive_file_access" ->
        << [priority |-> 1, category |-> "immediate", action |-> "Review file access",
           description |-> "Audit which sensitive files were accessed and why"],
           [priority |-> 1, category |-> "immediate", action |-> "Check for data exfiltration",
           description |-> "Monitor for unusual data transfers or downloads"],
           [priority |-> 2, category |-> "short_term", action |-> "Restrict file permissions",
           description |-> "Review and tighten access controls on sensitive files"],
           [priority |-> 3, category |-> "long_term", action |-> "Implement DLP",
           description |-> "Deploy Data Loss Prevention tools to monitor sensitive data"] >>
      [] anomaly_type = "privilege_escalation" ->
        << [priority |-> 1, category |-> "immediate", action |-> "Suspend elevated privileges",
           description |-> "Temporarily revoke sudo/admin access pending investigation"],
           [priority |-> 1, category |-> "immediate", action |-> "Review privilege usage",
           description |-> "Audit all commands executed with elevated privileges"],
           [priority |-> 2, category |-> "short_term", action |-> "Implement privilege monitoring",
           description |-> "Set up real-time alerts for privilege escalation attempts"],
           [priority |-> 3, category |-> "long_term", action |-> "Apply least privilege principle",
           description |-> "Review and minimize privilege assignments across organization"] >>
      [] anomaly_type = "firewall_change" ->
        << [priority |-> 1, category |-> "immediate", action |-> "Revert firewall changes",
           description |-> "Roll back unauthorized firewall rule modifications"],
           [priority |-> 1, category |-> "immediate", action |-> "Investigate change reason",
           description |-> "Determine why firewall rules were modified"],
           [priority |-> 2, category |-> "short_term", action |-> "Restrict firewall access",
           description |-> "Limit firewall configuration access to security team only"],
           [priority |-> 3, category |-> "long_term", action |-> "Implement change management",
           description |-> "Require approval workflow for all firewall changes"] >>
      [] anomaly_type = "failed_login" ->
        << [priority |-> 1, category |-> "immediate", action |-> "Lock account temporarily",
           description |-> "Prevent further login attempts to protect account"],
           [priority |-> 2, category |-> "immediate", action |-> "Contact employee",
           description |-> "Verify if employee is having login issues or if account is compromised"],
           [priority |-> 2, category |-> "short_term", action |-> "Force password reset",
           description |-> "Require employee to reset password with strong requirements"],
           [priority |-> 3, category |-> "short_term", action |-> "Enable account monitoring",
           description |-> "Set up enhanced monitoring for this account"] >>
      [] anomaly_type = "network_activity" ->
        << [priority |-> 1, category |-> "immediate", action |-> "Analyze traffic patterns",
           description |-> "Review network logs for signs of data exfiltration"],
           [priority |-> 2, category |-> "immediate", action |-> "Check for malware",
           description |-> "Scan employee workstation for malware or backdoors"],
           [priority |-> 3, category |-> "short_term", action |-> "Implement bandwidth limits",
           description |-> "Set reasonable bandwidth limits for user accounts"] >>
      [] anomaly_type = "night_activity" ->
        << [priority |-> 1, category |-> "immediate", action |-> "Verify employee activity",
           description |-> "Confirm if employee was working late or if account is compromised"],
           [priority |-> 2, category |-> "short_term", action |-> "Review activities performed",
           description |-> "Audit all actions taken during off-hours"],
           [priority |-> 3, category |-> "short_term", action |-> "Set up off-hours alerts",
           description |-> "Configure notifications for activity outside business hours"] >>
      [] anomaly_type = "high_cpu_usage" ->
        << [priority |-> 1, category |-> "immediate", action |-> "Investigate running processes",
           description |-> "Identify processes consuming high CPU (potential crypto miner)"],
           [priority |-> 2, category |-> "immediate", action |-> "Scan for malware",
           description |-> "Run deep system scan for resource hijacking malware"],
           [priority |-> 3, category |-> "short_term", action |-> "Kill suspicious process",
           description |-> "Terminate any unauthorized high-resource processes"] >>
      [] anomaly_type = "high_memory_usage" ->
        << [priority |-> 1, category |-> "immediate", action |-> "Check for memory leaks/bloat",
           description |-> "Identify applications using excessive memory"],
           [priority |-> 2, category |-> "immediate", action |-> "Scan for memory-resident malware",
           description |-> "Check for malware injecting into legitimate processes"] >>

DefaultMitigations ==
    << [priority |-> 1, category |-> "immediate", action |-> "Investigate anomaly",
           description |-> "Review the detected anomaly and gather more context"],
       [priority |-> 2, category |-> "immediate", action |-> "Contact employee",
           description |-> "Verify the unusual behavior with the employee"],
       [priority |-> 3, category |-> "short_term", action |-> "Monitor account",
           description |-> "Enable enhanced monitoring for this employee account"] >>

MitreMitigationIds == { "T1078", "T1021", "T1068", "T1048", "T1562", "T1530", "T1496" }

MitreMitigationFor(technique_id) ==
    CASE technique_id = "T1078" ->
        [priority |-> 2, category |-> "short_term", action |-> "Implement MFA",
           description |-> "Enable multi-factor authentication to prevent credential abuse"]
      [] technique_id = "T1021" ->
        [priority |-> 2, category |-> "short_term", action |-> "Restrict remote access",
           description |-> "Limit remote service access to authorized users and IPs"]
      [] technique_id = "T1068" ->
        [priority |-> 1, category |-> "immediate", action |-> "Patch vulnerabilities",
           description |-> "Apply security patches to prevent privilege escalation exploits"]
      [] technique_id = "T1048" ->
        [priority |-> 1, category |-> "immediate", action |-> "Monitor data transfers",
           description |-> "Implement network monitoring to detect data exfiltration"]
      [] technique_id = "T1562" ->
        [priority |-> 1, category |-> "immediate", action |-> "Restore security controls",
           description |-> "Re-enable any disabled security mechanisms"]
      [] technique_id = "T1530" ->
        [priority |-> 2, category |-> "short_term", action |-> "Audit cloud access",
           description |-> "Review and restrict cloud storage access permissions"]
      [] technique_id = "T1496" ->
        [priority |-> 1, category |-> "immediate", action |-> "Isolate and Clean",
           description |-> "Disconnect from network and remove crypto-mining malware"]

\* a new MitigationEngine()
NewEngine ==
    [mitigation_templates |-> [c \in TemplateCategories |-> TemplateFor(c)],
     default_mitigations |-> DefaultMitigations]

\* the action inserted for risk_level 'critical'
EscalateAction ==
    [priority |-> 1, category |-> "immediate", action |-> "Escalate to security team",
     description |-> "CRITICAL: Immediately notify security operations center"]

\* the action inserted for risk_level 'high'
AlertAction ==
    [priority |-> 1, category |-> "immediate", action |-> "Alert security team",
     description |-> "HIGH RISK: Notify security team for immediate review"]

\* strategies.insert(0, ...) according to the risk level
WithRiskAction(strategies, risk_level) ==
    IF risk_level = "critical" THEN << EscalateAction >> \o strategies
    ELSE IF risk_level = "high" THEN << AlertAction >> \o strategies
    ELSE strategies

\* the risk action put at the end of the list instead of its front
WithRiskActionLast(strategies, risk_level) ==
    IF risk_level = "critical" THEN Append(strategies, EscalateAction)
    ELSE IF risk_level = "high" THEN Append(strategies, AlertAction)
    ELSE strategies

\* engine._get_mitre_mitigation(technique) for each technique of the list,
\* nothing for an id the lookup returns None for
RECURSIVE MitreStrategies(_)
MitreStrategies(techniques) ==
    IF techniques = << >> THEN << >>
    ELSE (IF Head(techniques).technique_id \in MitreMitigationIds
          THEN << MitreMitigationFor(Head(techniques).technique_id) >> ELSE << >>)
         \o MitreStrategies(Tail(techniques))

\* key=lambda x: x['priority'], negated: list.sort is ascending and stable
RECURSIVE NegatedPriorities(_)
NegatedPriorities(strategies) ==
    IF strategies = << >> THEN << >>
    ELSE << 0 - Head(strategies).priority >> \o NegatedPriorities(Tail(strategies))

\* strategies.sort(key=lambda x: x['priority'])
SortedByPriority(strategies) == SortedByKeys(strategies, NegatedPriorities(strategies))

\* self.mitigation_templates.get(anomaly_type, self.default_mitigations.copy())
BaseStrategies(eng, anomaly_type) ==
    IF anomaly_type \in DOMAIN eng.mitigation_templates
    THEN eng.mitigation_templates[anomaly_type] ELSE eng.default_mitigations

\* generate_strategies with the risk action appended, not inserted at 0
generate_strategies_risk_action_last(eng, anomaly_type, risk_level, mitre_techniques) ==
    [out |-> SortedByPriority(WithRiskActionLast(BaseStrategies(eng, anomaly_type), risk_level)
                              \o MitreStrategies(FirstN(mitre_techniques, 2))),
     engine |-> eng]

\* generate_strategies without `strategies = [s.copy() for s in strategies]`:
\* insert, append and sort then work on the template's own list
generate_strategies_aliased(eng, anomaly_type, risk_level, mitre_techniques) ==
    LET out == SortedByPriority(WithRiskAction(BaseStrategies(eng, anomaly_type), risk_level)
                                \o MitreStrategies(FirstN(mitre_techniques, 2)))
    IN  [out |-> out,
         engine |-> IF anomaly_type \in DOMAIN eng.mitigation_templates
                    THEN [eng EXCEPT !.mitigation_templates[anomaly_type] = out]
                    ELSE eng]

\* engine.generate_strategies(anomaly_type, risk_level, mitre_techniques): the
\* plan returned and the engine afterwards.  The list worked on is a new list
\* of copies, so the tables of the engine stay as they are.  None and the
\* empty list of techniques are both falsy and are the empty sequence here.
generate_strategies(eng, anomaly_type, risk_level, mitre_techniques) ==
    LET strategies == BaseStrategies(eng, anomaly_type)
        with_risk  == WithRiskAction(strategies, risk_level)
        with_mitre == with_risk \o MitreStrategies(FirstN(mitre_techniques, 2))
    IN  [out |-> SortedByPriority(with_mitre), engine |-> eng]

\* the plans the planner may return: the plan of a critical finding of
\* category unusual_login_time with the techniques of MappingResults
PlanResults ==
    { generate_strategies(NewEngine, "unusual_login_time", "critical",
                          << [technique_id |-> "T1078"], [technique_id |-> "T1110"] >>).out }

\* what the scorer, attribution, mapper and planner may hand back in one run
PipelineInputs ==
    [failAt : PipelineSteps \cup {"none"}, is_anomaly : BOOLEAN, raw : RawScores,
     top : TopFeatures, techs : MappingResults, plan : PlanResults]

\* ------------------------------------------------------- monitoring agent
\* agent/sentinel_agent.py SentinelAgent.  An event is the dict a collect_*
\* method put on event_queue: seq tells the events apart, has_employee_id
\* says whether the dict holds the key 'employee_id'.
CollectedTypes == {"login", "network"}

NoSend == [outcome |-> "none", removed |-> 0]

\* SentinelAgent.__init__ followed by start(): an empty queue.Queue()
NewAgent ==
    [event_queue |-> << >>, running |-> TRUE, collected |-> 0, accepted |-> {},
     sent |-> NoSend]

\* event['employee_id'] = self.employee_id
Stamped(batch) == [i \in 1..Len(batch) |-> [batch[i] EXCEPT !.has_employee_id = TRUE]]

\* del event['employee_id']
Unstamped(batch) == [i \in 1..Len(batch) |-> [batch[i] EXCEPT !.has_employee_id = FALSE]]

\* a failed send that puts nothing back
after_failure_dropped(rest, batch) == rest

\* `for event in events: ... self.event_queue.put(event)` of both failure branches
after_failure(rest, batch) == rest \o Unstamped(batch)

\* what requests.post may do: answer 200, answer another status, raise an
\* Exception (connection error, timeout); a KeyboardInterrupt is no Exception
SendOutcomes == {"ok", "rejected", "raised"}

\* collect_login_event, collect_network_events, ...: self.event_queue.put(event)
collect_event(event_type) ==
    /\ agent.running
    /\ agent.collected < MaxCollected
    /\ agent' = [agent EXCEPT
                    !.collected = @ + 1,
                    !.event_queue = Append(@, [seq |-> agent.collected + 1,
                                               event_type |-> event_type,
                                               has_employee_id |-> FALSE])]
    /\ UNCHANGED << storeVars, trainVars, is_isolated, lastCall, lastLoad, script,
                    scriptRuns, probe, engine >>

\* SentinelAgent.send_events
send_events(outcome) ==
    /\ agent.running
    /\ IF agent.event_queue = << >>
       THEN agent' = [agent EXCEPT !.sent = [outcome |-> "empty", removed |-> 0]]
       ELSE LET batch == FirstN(agent.event_queue, batch_size)
                rest  == SubSeq(agent.event_queue, Len(batch) + 1, Len(agent.event_queue))
            IN  agent' = [agent EXCEPT
                    !.event_queue = IF outcome = "ok" THEN rest
                                    ELSE after_failure(rest, Stamped(batch)),
                    !.accepted = IF outcome = "ok"
                                 THEN @ \cup { Stamped(batch)[i] : i \in 1..Len(batch) }
                                 ELSE @,
                    !.sent = [outcome |-> outcome, removed |-> Len(batch)]]
    /\ UNCHANGED << storeVars, trainVars, is_isolated, lastCall, lastLoad, script,
                    scriptRuns, probe, engine >>

\* Ctrl-C while requests.post is under way: KeyboardInterrupt passes the
\* `except Exception` of send_events, collection_loop breaks and start()
\* ends the agent with whatever its queue held
interrupted_send ==
    /\ agent.running
    /\ agent.event_queue # << >>
    /\ LET batch == FirstN(agent.event_queue, batch_size)
       IN  agent' = [agent EXCEPT
               !.event_queue = SubSeq(@, Len(batch) + 1, Len(@)),
               !.running = FALSE,
               !.sent = [outcome |-> "interrupted", removed |-> Len(batch)]]
    /\ UNCHANGED << storeVars, trainVars, is_isolated, lastCall, lastLoad, script,
                    scriptRuns, probe, engine >>

AgentNext ==
    \/ \E ty \in CollectedTypes : collect_event(ty)
    \/ \E outcome \in SendOutcomes : send_events(outcome)
    \/ interrupted_send

\* ---------------------------------------------------------------- initial
NoCall == [op |-> "none", employee |-> NoOne, event_id |-> 0, event_type |-> "none",
           status |-> 0, raised |-> "none", consulted |-> FALSE, created |-> 0,
           trained |-> FALSE]

Call(op, employee, event_id, event_type, status, r) ==
    [op |-> op, employee |-> employee, event_id |-> event_id, event_type |-> event_type,
     status |-> status, raised |-> r.raised, consulted |-> r.consulted,
     created |-> r.created, trained |-> IsComplete(modelFile)]

\* the record of a query or command that changes no event: its name, the
\* employee it addresses and the HTTP status of the answer
Command(op, employee, status) ==
    [NoCall EXCEPT !.op = op, !.employee = employee, !.status = status]

NoEffects == Effects(anomalies, mitre_mappings, mitigation_strategies, nextId,
                     "none", FALSE, 0)

IdleTrainer == [pc |-> "idle", gen |-> 0, n |-> 0, before |-> NoFile, after |-> NoFile]

\* no library function has been called yet
NoProbe == [fn |-> "none"]

NoLoad == [happened |-> FALSE, ok |-> FALSE, gen |-> 0, why |-> "none",
           during_save |-> FALSE, had_previous |-> FALSE]

Init ==
    /\ events = << >>
    /\ anomalies = {}
    /\ mitre_mappings = {}
    /\ mitigation_strategies = {}
    /\ fingerprints = 0
    /\ is_isolated = [e \in Employees |-> FALSE]
    /\ nextId = 1
    /\ modelFile = NoFile
    /\ trainer = [t \in Trainers |-> IdleTrainer]
    /\ loop = NoOne
    /\ trainRuns = 0
    /\ lastCall = NoCall
    /\ lastLoad = NoLoad
    /\ script = [pc |-> "idle", anomaly_id |-> 0]
    /\ scriptRuns = 0
    /\ probe = NoProbe
    /\ engine = NewEngine
    /\ agent = NewAgent

\* --------------------------------------------------------------- ingestion
Commit(r) ==
    /\ anomalies' = r.anoms
    /\ mitre_mappings' = r.maps
    /\ mitigation_strategies' = r.strats
    /\ nextId' = r.nid

\* routes/events.py create_event
create_event(employee_id, event_type, in) ==
    /\ Len(events) < MaxEvents
    /\ IF employee_id \notin Employees
       THEN /\ lastCall' = Call("create_event", employee_id, 0, event_type, 404, NoEffects)
            /\ UNCHANGED storeVars
       ELSE LET ev == [id |-> Len(events) + 1, employee_id |-> employee_id,
                       event_type |-> event_type]
                r  == process_event_anomaly(employee_id, ev, nextId, in)
            IN  /\ events' = Append(events, ev)          \* await db_event.create()
                /\ Commit(r)
                /\ lastCall' = Call("create_event", employee_id, ev.id, event_type,
                                    IF Propagates(r.raised) THEN 500 ELSE 200, r)
    /\ UNCHANGED << trainVars, is_isolated, lastLoad, script, scriptRuns, probe, engine, agent >>

\* event types of the batches an agent posts to /api/agent/events/batch
BatchPayloads == { <<"login">>, <<"file_access", "login">> }

StoredBatch(employee_id, types, first_id) ==
    [i \in 1..Len(types) |->
        [id |-> first_id + i - 1, employee_id |-> employee_id, event_type |-> types[i]]]

\* routes/agent.py receive_batch_events
receive_batch_events(employee_id, types, in) ==
    /\ Len(events) + Len(types) <= MaxEvents
    /\ IF employee_id \notin Employees
       THEN /\ lastCall' = Call("receive_batch_events", employee_id, 0, "batch", 404, NoEffects)
            /\ UNCHANGED storeVars
       ELSE LET r == Statistical(employee_id, 0, nextId, in,
                                 anomaly_type_map(in.top), "open")
            IN  /\ events' = events \o StoredBatch(employee_id, types, Len(events) + 1)
                /\ Commit(r)
                /\ lastCall' = Call("receive_batch_events", employee_id,
                                    Len(events) + Len(types), "batch",
                                    IF Propagates(r.raised) THEN 500 ELSE 200, r)
    /\ UNCHANGED << trainVars, is_isolated, lastLoad, script, scriptRuns, probe, engine, agent >>

\* --------------------------------------------------------- case management
AnomalyIds == { a.id : a \in anomalies }

\* routes/anomalies.py resolve_anomaly: anomaly.status = resolution.status
ResolvedStatus(old, requested) == requested

resolve_anomaly(anomaly_id, status) ==
    /\ IF anomaly_id \notin AnomalyIds
       THEN UNCHANGED anomalies                       \* HTTP 404
       ELSE /\ anomalies' =
                { IF a.id = anomaly_id
                  THEN [a EXCEPT !.status = ResolvedStatus(a.status, status)]
                  ELSE a : a \in anomalies }
    /\ UNCHANGED << events, mitre_mappings, mitigation_strategies, nextId, trainVars,
                    is_isolated, lastLoad, script, scriptRuns, probe, engine, agent >>
    /\ lastCall' = NoCall

\* every open anomaly -> investigating, whosever it is
IsolatedStatusOfAnyone(a, employee_id) ==
    IF a.status = "open" THEN "investigating" ELSE a.status

\* routes/agent.py isolate_agent: open anomalies of the employee -> investigating
IsolatedStatus(a, employee_id) ==
    IF a.employee_id = employee_id /\ a.status = "open" THEN "investigating" ELSE a.status

isolate_agent(employee_id) ==
    /\ IF employee_id \notin Employees
       THEN UNCHANGED << anomalies, is_isolated >>    \* HTTP 404
       ELSE /\ is_isolated' = [is_isolated EXCEPT ![employee_id] = TRUE]
            /\ anomalies' = { [a EXCEPT !.status = IsolatedStatus(a, employee_id)] :
                              a \in anomalies }
    /\ UNCHANGED << events, mitre_mappings, mitigation_strategies, nextId, trainVars,
                    lastLoad, script, scriptRuns, probe, engine, agent >>
    /\ lastCall' = NoCall

\* routes/agent.py restore_agent
restore_agent(employee_id) ==
    /\ IF employee_id \notin Employees
       THEN UNCHANGED is_isolated                     \* HTTP 404
       ELSE is_isolated' = [is_isolated EXCEPT ![employee_id] = FALSE]
    /\ UNCHANGED << storeVars, trainVars, lastLoad, script, scriptRuns, probe, engine, agent >>
    /\ lastCall' = NoCall

\* the old rule: an agent with open critical or high findings is isolated
isolated_reply_auto(flag, active_threats) == flag \/ active_threats > 0

\* isolated = employee.is_isolated
isolated_reply(flag, active_threats) == flag

\* Anomaly.find(employee_id == employee.id, status == "open",
\*              In(risk_level, ["critical", "high"])).count()
ActiveThreats(employee_id) ==
    Cardinality({ a \in anomalies : /\ a.employee_id = employee_id
                                     /\ a.status = "open"
                                     /\ a.risk_level \in {"critical", "high"} })

\* routes/agent.py get_agent_status
get_agent_status(employee_id) ==
    /\ lastCall' =
          IF employee_id \notin Employees
          THEN Command("get_agent_status", employee_id, 404)
          ELSE Command("get_agent_status", employee_id, 200) @@
               [isolated |-> isolated_reply(is_isolated[employee_id],
                                            ActiveThreats(employee_id)),
                active_threats |-> ActiveThreats(employee_id)]
    /\ UNCHANGED << storeVars, trainVars, is_isolated, lastLoad, script, scriptRuns,
                    probe, engine, agent >>

\* routes/anomalies.py implement_mitigation
\* path parameters that PydanticObjectId.is_valid rejects: no document has
\* such an id
InvalidAnomalyId == 0
InvalidStrategyId == << >>

\* datetime.now(timezone.utc), as far as the store tells it from "never"
ImplementedNow == "now"

Implementers == {"analyst"}

\* a lookup by the strategy's id alone
StrategyFoundById(m, anomaly_id, strategy_id) == m.id = strategy_id

\* MitigationStrategy.find_one(id == strategy_id, anomaly_id == anomaly_id)
StrategyFound(m, anomaly_id, strategy_id) ==
    m.id = strategy_id /\ m.anomaly_id = anomaly_id

Implemented(m, implemented_by) ==
    [m EXCEPT !.implemented = TRUE, !.implemented_at = ImplementedNow,
              !.implemented_by = implemented_by]

implement_mitigation(anomaly_id, strategy_id, implemented_by) ==
    /\ IF anomaly_id = InvalidAnomalyId \/ strategy_id = InvalidStrategyId
       THEN /\ UNCHANGED mitigation_strategies          \* HTTP 404 "Invalid ID"
            /\ lastCall' = Command("implement_mitigation", NoOne, 404)
       ELSE LET found == { m \in mitigation_strategies :
                              StrategyFound(m, anomaly_id, strategy_id) }
            IN  IF found = {}
                THEN /\ UNCHANGED mitigation_strategies  \* HTTP 404 "not found"
                     /\ lastCall' = Command("implement_mitigation", NoOne, 404)
                ELSE /\ mitigation_strategies' =
                           { IF m \in found THEN Implemented(m, implemented_by) ELSE m :
                             m \in mitigation_strategies }
                     /\ lastCall' = Command("implement_mitigation", NoOne, 200)
    /\ UNCHANGED << events, anomalies, mitre_mappings, nextId, trainVars, is_isolated,
                    lastLoad, script, scriptRuns, probe, engine, agent >>

\* ------------------------------------------------------ maintenance scripts
\* clear_agent_anomalies.py: the employee whose ObjectId is hard-coded
ClearedEmployee == "e1"

\* Anomaly.find(Anomaly.employee_id == employee.id).delete(): what is left
AfterClear(anoms, employee_id) == { a \in anoms : a.employee_id # employee_id }

clear_anomalies ==
    /\ \E a \in anomalies : a.employee_id = ClearedEmployee
    /\ anomalies' = AfterClear(anomalies, ClearedEmployee)
    /\ UNCHANGED << events, mitre_mappings, mitigation_strategies, nextId, trainVars,
                    is_isolated, lastLoad, script, scriptRuns, probe, engine, agent >>
    /\ lastCall' = NoCall

\* verify_fix.py verify: the test employee
VerifyEmployee == "e2"

\* verify_fix.py verify: the dummy strategy
TestStrategy ==
    [priority |-> 1, category |-> "Test Category", action |-> "Test Action",
     description |-> "Test Description"]

\* verify_fix.py verify, "1. Setup Data": a dummy anomaly and a dummy strategy
verify_setup ==
    /\ script.pc = "idle"
    /\ scriptRuns < MaxScriptRuns
    /\ scriptRuns' = scriptRuns + 1
    /\ anomalies' = anomalies \cup
          { NewAnomaly(nextId, VerifyEmployee, 900, "critical", 90, 0, "test_type", "open",
                       NoTopFeature) }
    /\ mitigation_strategies' = mitigation_strategies \cup
          { NewStrategy(nextId, 1, TestStrategy) }
    /\ script' = [pc |-> "created", anomaly_id |-> nextId]
    /\ nextId' = nextId + 1
    /\ UNCHANGED << events, mitre_mappings, trainVars, is_isolated, lastLoad, probe, engine, agent >>
    /\ lastCall' = NoCall

\* verify_fix.py verify, "Cleanup": anomaly.delete(); strategy.delete()
verify_cleanup ==
    /\ script.pc = "created"
    /\ anomalies' = { a \in anomalies : a.id # script.anomaly_id }
    /\ mitigation_strategies' =
          { m \in mitigation_strategies : m.id # << script.anomaly_id, 1 >> }
    /\ script' = [pc |-> "idle", anomaly_id |-> 0]
    /\ UNCHANGED << events, mitre_mappings, nextId, trainVars, is_isolated,
                    lastLoad, scriptRuns, probe, engine, agent >>
    /\ lastCall' = NoCall

\* routes/ml_ops.py train_model served with no other request in between
train_model(n_samples, failAt, k) ==
    /\ trainRuns < MaxRetrains
    /\ trainRuns' = trainRuns + 1
    /\ IF Refused(n_samples)
       THEN /\ UNCHANGED << fingerprints, modelFile >>
            /\ lastCall' = Call("train_model", NoOne, 0, "none", 400, NoEffects)
       ELSE /\ fingerprints' = fingerprints + 1  \* one batch of BehavioralFingerprint documents
            /\ modelFile' = TrainResult(modelFile, trainRuns + 1, failAt, n_samples, k)
            /\ lastCall' = Call("train_model", NoOne, 0, "none",
                                IF FirstFailure(failAt, n_samples) = "none" THEN 200 ELSE 500,
                                NoEffects)
    /\ UNCHANGED << storeVars, trainer, loop, is_isolated, lastLoad, script, scriptRuns, probe, engine, agent >>

\* what one run of the pipeline hands back when nothing raises
NominalInputs == { in \in PipelineInputs : in.failAt = "none" /\ in.is_anomaly }

IngestNext ==
    \/ \E e \in Employees \cup {UnknownEmployee}, ty \in EventTypes, in \in PipelineInputs :
          create_event(e, ty, in)
    \/ \E e \in Employees \cup {UnknownEmployee}, tys \in BatchPayloads, in \in PipelineInputs :
          receive_batch_events(e, tys, in)

TrainRequest ==
    \E n \in Populations, f \in TrainSteps \cup {"none"}, k \in 0..(ArtifactChunks - 1) :
        train_model(n, f, k)

\* Ingestion and training requests, served one after the other.
Next ==
    \/ IngestNext
    \/ TrainRequest

Spec == Init /\ [][Next]_vars

\* Case management and maintenance over findings the pipeline detected.
DetectNext ==
    \/ \E ty \in EventTypes, in \in NominalInputs : create_event(ClearedEmployee, ty, in)
    \/ \E in \in NominalInputs : receive_batch_events(ClearedEmployee, <<"login">>, in)
    \/ train_model(NClusters, "none", 0)

CaseNext ==
    \/ \E id \in AnomalyIds \cup {nextId}, st \in ResolveStatuses : resolve_anomaly(id, st)
    \/ \E e \in Employees \cup {UnknownEmployee} : isolate_agent(e)
    \/ \E e \in Employees \cup {UnknownEmployee} : restore_agent(e)

ScriptNext ==
    \/ clear_anomalies
    \/ verify_setup
    \/ verify_cleanup

NextCase ==
    \/ DetectNext
    \/ CaseNext
    \/ ScriptNext

SpecCase == Init /\ [][NextCase]_vars

\* The operator's console: status queries and isolation commands over the
\* findings the pipeline detected for either employee.
OpsDetect ==
    \/ \E e \in Employees, in \in NominalInputs : create_event(e, "login", in)
    \/ train_model(NClusters, "none", 0)

OpsNext ==
    \/ OpsDetect
    \/ \E e \in Employees \cup {UnknownEmployee} : isolate_agent(e)
    \/ \E e \in Employees \cup {UnknownEmployee} : restore_agent(e)
    \/ \E e \in Employees \cup {UnknownEmployee} : get_agent_status(e)

SpecOps == Init /\ [][OpsNext]_vars

\* The analyst's console: mitigation actions of detected and of script-made
\* findings are marked as implemented.
AddressedAnomalyIds == AnomalyIds \cup {nextId, InvalidAnomalyId}

AddressedStrategyIds ==
    { << a, seq >> : a \in AnomalyIds, seq \in 1..MaxAddressed } \cup {InvalidStrategyId}

MitigateNext ==
    \/ \E in \in NominalInputs : create_event(ClearedEmployee, "login", in)
    \/ train_model(NClusters, "none", 0)
    \/ verify_setup
    \/ verify_cleanup
    \/ \E a \in AddressedAnomalyIds, m \in AddressedStrategyIds, by \in Implementers :
           implement_mitigation(a, m, by)

SpecMitigate == Init /\ [][MitigateNext]_vars

\* Isolation commands over a detected finding of one employee and the
\* script-made finding of another, in any status an analyst may give them.
IsolateNext ==
    \/ \E in \in NominalInputs : create_event(ClearedEmployee, "login", in)
    \/ train_model(NClusters, "none", 0)
    \/ verify_setup
    \/ \E id \in AnomalyIds, st \in ResolveStatuses : resolve_anomaly(id, st)
    \/ \E e \in Employees \cup {UnknownEmployee} : isolate_agent(e)
    \/ \E e \in Employees \cup {UnknownEmployee} : restore_agent(e)

SpecIsolate == Init /\ [][IsolateNext]_vars

\* The agent's collection loop against a backend that may answer anything.
SpecAgent == Init /\ [][AgentNext]_vars

\* ------------------------------------------- training, step by step
\* routes/ml_ops.py train_model as the event loop runs it: the fingerprint
\* phase awaits the store (other requests are served meanwhile); from
\* create_training_data to the response nothing is awaited, so that section
\* holds the loop.  The artifact file is shared with every other process
\* that uses model_path.
InProgress(t) == trainer[t].pc \notin {"idle", "done", "failed", "refused"}

\* the request arrives: `employees = await models.Employee.find_all().to_list()`
TrainBegin(t, n_samples) ==
    /\ trainer[t].pc = "idle"
    /\ trainRuns < MaxTrainRuns
    /\ trainRuns' = trainRuns + 1
    /\ trainer' = [trainer EXCEPT ![t] =
                      [pc |-> IF Refused(n_samples) THEN "refused" ELSE "fingerprints",
                       gen |-> trainRuns + 1, n |-> n_samples,
                       before |-> NoFile, after |-> NoFile]]
    /\ UNCHANGED << storeVars, modelFile, loop, fingerprints, is_isolated, lastCall,
                    lastLoad, script, scriptRuns, probe, engine, agent >>

\* the `for employee in employees` loop has awaited its last fingerprint;
\* create_training_data, AnomalyDetector() and detector.train(...) start
TrainFingerprints(t) ==
    /\ trainer[t].pc = "fingerprints"
    /\ loop = NoOne
    /\ loop' = t
    /\ fingerprints' = fingerprints + 1
    /\ trainer' = [trainer EXCEPT ![t].pc = "train", ![t].before = modelFile]
    /\ UNCHANGED << storeVars, modelFile, trainRuns, is_isolated, lastCall, lastLoad,
                    script, scriptRuns, probe, engine, agent >>

\* AnomalyDetector.train: self.scaler.fit_transform(X)
TrainStandardize(t) ==
    /\ trainer[t].pc = "train"
    /\ loop = t
    /\ trainer' = [trainer EXCEPT ![t].pc = "scaled"]
    /\ UNCHANGED << storeVars, modelFile, loop, trainRuns, fingerprints, is_isolated,
                    lastCall, lastLoad, script, scriptRuns, probe, engine, agent >>

\* AnomalyDetector.train: self.isolation_forest.fit(X_scaled)
TrainFitForest(t) ==
    /\ trainer[t].pc = "scaled"
    /\ loop = t
    /\ trainer' = [trainer EXCEPT ![t].pc = "forest"]
    /\ UNCHANGED << storeVars, modelFile, loop, trainRuns, fingerprints, is_isolated,
                    lastCall, lastLoad, script, scriptRuns, probe, engine, agent >>

\* AnomalyDetector.train: self.kmeans.fit(X_scaled)
TrainFitKMeans(t) ==
    /\ trainer[t].pc = "forest"
    /\ loop = t
    /\ KMeansFits(trainer[t].n)
    /\ trainer' = [trainer EXCEPT ![t].pc = "fitted"]
    /\ UNCHANGED << storeVars, modelFile, loop, trainRuns, fingerprints, is_isolated,
                    lastCall, lastLoad, script, scriptRuns, probe, engine, agent >>

\* AnomalyDetector.save_model: open(model_file, 'wb')
SaveOpen(t) ==
    /\ trainer[t].pc = "fitted"
    /\ loop = t
    /\ modelFile' = Truncated(trainer[t].gen)
    /\ trainer' = [trainer EXCEPT ![t].pc = "writing"]
    /\ UNCHANGED << storeVars, loop, trainRuns, fingerprints, is_isolated, lastCall,
                    lastLoad, script, scriptRuns, probe, engine, agent >>

\* AnomalyDetector.save_model: pickle.dump writes the next chunk
SaveWrite(t) ==
    /\ trainer[t].pc = "writing"
    /\ loop = t
    /\ modelFile.written < ArtifactChunks
    /\ modelFile' = Flushed(modelFile)
    /\ UNCHANGED << storeVars, trainer, loop, trainRuns, fingerprints, is_isolated,
                    lastCall, lastLoad, script, scriptRuns, probe, engine, agent >>

\* AnomalyDetector.save_model: the with-block closes the file; train returns
SaveClose(t) ==
    /\ trainer[t].pc = "writing"
    /\ loop = t
    /\ modelFile.written = ArtifactChunks
    /\ loop' = NoOne
    /\ trainer' = [trainer EXCEPT ![t].pc = "done", ![t].after = modelFile]
    /\ UNCHANGED << storeVars, modelFile, trainRuns, fingerprints, is_isolated, lastCall,
                    lastLoad, script, scriptRuns, probe, engine, agent >>

\* a step of train() or save_model() raises: nothing catches it, the request
\* ends with HTTP 500 and the file stays as the step left it
TrainFail(t) ==
    /\ trainer[t].pc \in {"train", "scaled", "forest", "writing"}
    /\ loop = t
    /\ trainer[t].pc = "writing" => modelFile.written < ArtifactChunks
    /\ loop' = NoOne
    /\ trainer' = [trainer EXCEPT ![t].pc = "failed", ![t].after = modelFile]
    /\ UNCHANGED << storeVars, modelFile, trainRuns, fingerprints, is_isolated, lastCall,
                    lastLoad, script, scriptRuns, probe, engine, agent >>

\* the response has been sent
TrainRespond(t) ==
    /\ trainer[t].pc \in {"done", "failed", "refused"}
    /\ trainer' = [trainer EXCEPT ![t] = IdleTrainer]
    /\ UNCHANGED << storeVars, modelFile, loop, trainRuns, fingerprints, is_isolated,
                    lastCall, lastLoad, script, scriptRuns, probe, engine, agent >>

\* the artifact a save in progress is replacing
Writer == { t \in Trainers : trainer[t].pc = "writing" }

\* scripts/detect_anomalies.py (another process on the same model_path):
\* detector = AnomalyDetector() runs load_model() on whatever is on disk
ReaderLoad ==
    /\ lastLoad' =
          LET r == load_model(modelFile)
          IN  [happened |-> TRUE, ok |-> r.ok, gen |-> r.gen, why |-> r.why,
               during_save |-> Writer # {},
               had_previous |-> \E t \in Writer : IsComplete(trainer[t].before)]
    /\ UNCHANGED << storeVars, trainVars, is_isolated, lastCall, script, scriptRuns, probe, engine, agent >>

TrainNext ==
    \/ \E t \in Trainers, n \in Populations : TrainBegin(t, n)
    \/ \E t \in Trainers : TrainFingerprints(t)
    \/ \E t \in Trainers : TrainStandardize(t)
    \/ \E t \in Trainers : TrainFitForest(t)
    \/ \E t \in Trainers : TrainFitKMeans(t)
    \/ \E t \in Trainers : SaveOpen(t)
    \/ \E t \in Trainers : SaveWrite(t)
    \/ \E t \in Trainers : SaveClose(t)
    \/ \E t \in Trainers : TrainFail(t)
    \/ \E t \in Trainers : TrainRespond(t)
    \/ ReaderLoad

SpecTrain == Init /\ [][TrainNext]_vars

\* ------------------------------------------------------ technique mapping
\* ml/mitre_mapper.py.  The catalogue, in the order of the dictionary.
technique_database ==
    << [technique_id |-> "T1078", tactic |-> "Initial Access / Persistence",
        indicators |-> << "unusual_login", "failed_login", "night_activity", "location_variance" >>],
       [technique_id |-> "T1021", tactic |-> "Lateral Movement",
        indicators |-> << "unusual_port", "network_activity", "unique_ports" >>],
       [technique_id |-> "T1068", tactic |-> "Privilege Escalation",
        indicators |-> << "privilege_escalation", "unusual_sudo" >>],
       [technique_id |-> "T1048", tactic |-> "Exfiltration",
        indicators |-> << "unusual_port", "network_activity", "large_transfer" >>],
       [technique_id |-> "T1562", tactic |-> "Defense Evasion",
        indicators |-> << "firewall_change", "security_config" >>],
       [technique_id |-> "T1530", tactic |-> "Collection",
        indicators |-> << "sensitive_file_access", "unusual_file_access", "bulk_download" >>],
       [technique_id |-> "T1110", tactic |-> "Credential Access",
        indicators |-> << "failed_login", "multiple_login_attempts" >>],
       [technique_id |-> "T1098", tactic |-> "Persistence",
        indicators |-> << "privilege_escalation", "account_modification" >>] >>

\* `a in b` on the names the catalogue, the categories and the feature names
\* are made of: the pairs of different names of which the first occurs
\* inside the second
ProperSubstrings ==
    { << "unusual_login", "unusual_login_time" >>,
      << "unusual_login", "unusual_login_pattern" >>,
      << "failed_login", "failed_logins" >>,
      << "failed_login", "failed_login_rate" >>,
      << "night_activity", "night_activity_ratio" >>,
      << "unusual_port", "unusual_port_usage" >>,
      << "network_activity", "network_activity_volume" >>,
      << "unique_ports", "unique_ports_count" >>,
      << "privilege_escalation", "privilege_escalation_rate" >>,
      << "firewall_change", "firewall_change_rate" >>,
      << "sensitive_file_access", "sensitive_file_access_rate" >>,
      << "file_access_rate", "sensitive_file_access_rate" >> }

IsSubstring(a, b) == a = b \/ << a, b >> \in ProperSubstrings

\* a confidence is kept in units of 1/12000: every term of the sum is a whole
\* number of units for the catalogue's 2, 3 or 4 indicators and a whole risk
\* score.  The sum is taken in binary floating point: an odd value stands for
\* the double one unit in the last place above the double nearest to the
\* exact sum, which is what the additions return for the arguments
\* (category matched, feature matches, indicators, risk score) of RoundedUp.
ConfidenceOne == 12000
TypeWeight == 4800
FeatureWeight == 4800
RiskWeight == 2400
InclusionThreshold == 3600

\* the risk scores mappings are asked for
MappedRiskScores == {0, 50, 100}

RoundedUp ==
    { << FALSE, 1, 2, 50 >>, << FALSE, 1, 3, 100 >>, << FALSE, 1, 4, 100 >>,
      << FALSE, 2, 2, 100 >>, << FALSE, 2, 3, 50 >>, << FALSE, 2, 4, 50 >>,
      << FALSE, 3, 2, 0 >>, << FALSE, 3, 2, 50 >>, << FALSE, 3, 3, 100 >>,
      << FALSE, 3, 4, 0 >>, << FALSE, 4, 3, 100 >>, << FALSE, 4, 4, 100 >>,
      << TRUE, 0, 2, 100 >>, << TRUE, 0, 3, 100 >>, << TRUE, 0, 4, 100 >>,
      << TRUE, 1, 2, 0 >>, << TRUE, 1, 2, 50 >>, << TRUE, 1, 3, 100 >>,
      << TRUE, 2, 3, 0 >>, << TRUE, 2, 4, 0 >>, << TRUE, 2, 4, 50 >>,
      << TRUE, 3, 4, 0 >>, << TRUE, 3, 4, 100 >> }

FloatExcess(type_match, feature_matches, n_indicators, risk_score) ==
    IF << type_match, feature_matches, n_indicators, risk_score >> \in RoundedUp
    THEN 1 ELSE 0

\* for indicator in indicators: if indicator in anomaly_type: ... break
TypeMatch(anomaly_type, indicators) ==
    \E i \in 1..Len(indicators) : IsSubstring(indicators[i], anomaly_type)

\* the features of the list, each counted once, that some indicator matches
FeatureMatchCount(feature_names, indicators) ==
    Cardinality({ k \in 1..Len(feature_names) :
                    \E i \in 1..Len(indicators) :
                       \/ IsSubstring(indicators[i], feature_names[k])
                       \/ IsSubstring(feature_names[k], indicators[i]) })

Min(a, b) == IF a < b THEN a ELSE b

\* mapper._calculate_confidence(anomaly_type, feature_names, indicators, risk_score)
calculate_confidence(anomaly_type, feature_names, indicators, risk_score) ==
    LET type_match      == TypeMatch(anomaly_type, indicators)
        feature_matches == FeatureMatchCount(feature_names, indicators)
        type_confidence == IF type_match THEN TypeWeight ELSE 0
        feature_confidence ==
            IF Len(indicators) > 0
            THEN (feature_matches * FeatureWeight) \div Len(indicators) ELSE 0
        risk_confidence == (risk_score * RiskWeight) \div 100
        confidence == type_confidence + feature_confidence + risk_confidence
                      + FloatExcess(type_match, feature_matches, Len(indicators), risk_score)
    IN  Min(confidence, ConfidenceOne)

\* feature_names = [f['feature'] for f in top_features]
RECURSIVE FeatureNamesOf(_)
FeatureNamesOf(top_features) ==
    IF top_features = << >> THEN << >>
    ELSE << Head(top_features).feature >> \o FeatureNamesOf(Tail(top_features))

\* one candidate mapping per catalogue entry from the i-th on, in catalogue order
RECURSIVE CandidatesFrom(_, _, _, _)
CandidatesFrom(i, anomaly_type, feature_names, risk_score) ==
    IF i > Len(technique_database) THEN << >>
    ELSE << [technique_id |-> technique_database[i].technique_id,
             tactic |-> technique_database[i].tactic,
             confidence |-> calculate_confidence(anomaly_type, feature_names,
                                technique_database[i].indicators, risk_score)] >>
         \o CandidatesFrom(i + 1, anomaly_type, feature_names, risk_score)

Included(mapping) == mapping.confidence > InclusionThreshold

\* key=lambda x: x['confidence']
RECURSIVE Confidences(_)
Confidences(mappings) ==
    IF mappings = << >> THEN << >>
    ELSE << Head(mappings).confidence >> \o Confidences(Tail(mappings))

\* the mappings as appended, without the final sort
map_anomaly_unsorted(anomaly_type, top_features, risk_score) ==
    SelectSeq(CandidatesFrom(1, anomaly_type, FeatureNamesOf(top_features), risk_score),
              Included)

\* mapper.map_anomaly(anomaly_type, top_features, risk_score)
map_anomaly(anomaly_type, top_features, risk_score) ==
    LET mappings == SelectSeq(CandidatesFrom(1, anomaly_type,
                                  FeatureNamesOf(top_features), risk_score), Included)
    IN  SortedByKeys(mappings, Confidences(mappings))

\* the categories the callers derive from the top feature
AnomalyTypes ==
    { "unusual_login_time", "unusual_login_pattern", "unusual_location", "location_variance",
      "unusual_port_usage", "unusual_port", "unusual_file_access", "sensitive_file_access",
      "privilege_escalation", "firewall_change", "network_activity", "failed_login",
      "unusual_schedule", "night_activity", "behavioral_anomaly", "unknown",
      "unusual_login", "sensitive_files", "failed_logins", "policy_violation" }

\* ------------------------------------------------- library functions, called
\* what the store may hold when the extractor runs
Histories == UNION { [1..n -> StoredEvents] : n \in 0..MaxHistory }

BaselineLocations == {"HQ", NoLocation}
DaysBack == {7, 30}             \* routes/agent.py and routes/ml_ops.py
HoursBack == {12, 24, 48}

libVars == << storeVars, trainVars, is_isolated, lastCall, lastLoad, script, scriptRuns, engine,
             agent >>

\* each behaviour of the library specifications is one call
NotCalled == probe = NoProbe

CallFingerprint ==
    /\ NotCalled
    /\ \E h \in Histories, e \in Employees \cup {UnknownEmployee},
             b \in BaselineLocations, d \in DaysBack :
           /\ probe' = [fn |-> "calculate_behavioral_fingerprint", history |-> h,
                         employee_id |-> e, baseline_location |-> b, window_hours |-> d * 24,
                         out |-> calculate_behavioral_fingerprint(h, e, b, d)]
           /\ UNCHANGED libVars

CallExtract ==
    /\ NotCalled
    /\ \E h \in Histories, e \in Employees \cup {UnknownEmployee},
             b \in BaselineLocations, hb \in HoursBack :
           /\ probe' = [fn |-> "extract_features_from_recent_events", history |-> h,
                         employee_id |-> e, baseline_location |-> b, window_hours |-> hb,
                         out |-> extract_features_from_recent_events(h, e, b, hb)]
           /\ UNCHANGED libVars

FeatureNext ==
    \/ CallFingerprint
    \/ CallExtract

SpecFeatures == Init /\ [][FeatureNext]_vars

\* raw outlier scores (thousandths) handed to the scorer
RawScoreRange == (0 - MaxRawScore)..MaxRawScore

RiskScores == 0..100
RiskLevels == {"low", "medium", "high", "critical"}

\* detector.predict_single(feature_array), on a detector with or without a model
CallPredictSingle ==
    /\ NotCalled
    /\ \E f \in {NoFile, FlushedN(Truncated(1), ArtifactChunks)}, flagged \in BOOLEAN,
             raw \in RawScoreRange :
           /\ probe' = [fn |-> "predict_single", raw |-> raw, flagged |-> flagged,
                         out |-> predict_single(load_model(f), flagged, raw)]
           /\ UNCHANGED libVars

\* detector._get_risk_level(risk_score)
CallRiskLevel ==
    /\ NotCalled
    /\ \E r \in RiskScores :
           /\ probe' = [fn |-> "_get_risk_level", risk_score |-> r, out |-> get_risk_level(r)]
           /\ UNCHANGED libVars

ScoreNext ==
    \/ CallPredictSingle
    \/ CallRiskLevel

SpecScore == Init /\ [][ScoreNext]_vars

\* values a feature may take besides its reference value
AltValues ==
    [avg_login_hour |-> << 3000, 14000 >>, login_hour_std |-> << 0, 5000 >>,
     unique_locations_count |-> << 2000, 3000 >>, avg_location_distance |-> << 500, 1000 >>,
     unique_ports_count |-> << 0, 6000 >>, avg_port_number |-> << 22000, 1024000 >>,
     file_access_rate |-> << 0, 10000 >>, sensitive_file_access_rate |-> << 0, 2000 >>,
     privilege_escalation_rate |-> << 0, 1000 >>, firewall_change_rate |-> << 1000, 2000 >>,
     network_activity_volume |-> << 0, 20000 >>, failed_login_rate |-> << 1000, 3000 >>,
     weekday_activity_ratio |-> << 0, 1000 >>, night_activity_ratio |-> << 0, 1000 >>]

FewFeatures == { D \in SUBSET FeatureNameSet : Cardinality(D) <= MaxDeviating }

\* fingerprints handed to explain: the reference table with a few features off
Fingerprints ==
    UNION { { [name \in FeatureNameSet |->
                 IF name \in D THEN AltValues[name][c[name]] ELSE normal_values[name]] :
              c \in [D -> {1, 2}] } : D \in FewFeatures }

\* contributions explainer.shap_values may return: a few non-zero entries
ShapEntries == {-300, 150, 300}
ShapVectors ==
    UNION { { [name \in FeatureNameSet |-> IF name \in D THEN c[name] ELSE 0] :
              c \in [D -> ShapEntries] } : D \in FewFeatures }

\* explainer.explain(feature_array) with the attribution working
CallExplainShap ==
    /\ NotCalled
    /\ \E shap \in ShapVectors :
           /\ probe' = [fn |-> "explain", mode |-> "shap", features |-> normal_values,
                         shap |-> shap, out |-> explain("shap", normal_values, shap)]
           /\ UNCHANGED libVars

\* explainer.explain(feature_array) with the attribution missing or raising
CallExplainFallback ==
    /\ NotCalled
    /\ \E mode \in ExplainModes \ {"shap"}, features \in Fingerprints :
           /\ probe' = [fn |-> "explain", mode |-> mode, features |-> features,
                         shap |-> PseudoShapValues(features),
                         out |-> explain(mode, features, PseudoShapValues(features))]
           /\ UNCHANGED libVars

ExplainNext ==
    \/ CallExplainShap
    \/ CallExplainFallback

SpecExplain == Init /\ [][ExplainNext]_vars

\* the feature names some indicator of the catalogue matches, and two that
\* none matches
AttributedNames ==
    { "failed_login_rate", "night_activity_ratio", "network_activity_volume",
      "unique_ports_count", "privilege_escalation_rate", "firewall_change_rate",
      "sensitive_file_access_rate", "file_access_rate", "avg_login_hour" }

\* lists of attributed features handed to the mapper
AttributedLists ==
    UNION { [1..n -> { [feature |-> name] : name \in AttributedNames }] :
            n \in 0..MaxAttributed }

\* mitre_mapper.map_anomaly(anomaly_type, top_features, risk_score)
CallMapAnomaly ==
    /\ NotCalled
    /\ \E anomaly_type \in AnomalyTypes, top_features \in AttributedLists,
             risk_score \in MappedRiskScores :
           /\ probe' = [fn |-> "map_anomaly", anomaly_type |-> anomaly_type,
                         top_features |-> top_features, risk_score |-> risk_score,
                         out |-> map_anomaly(anomaly_type, top_features, risk_score)]
           /\ UNCHANGED libVars

MapNext ==
    \/ CallMapAnomaly

SpecMap == Init /\ [][MapNext]_vars

\* categories plans are asked for: the templates' and two that have none
PlannedCategories == TemplateCategories \cup {"behavioral_anomaly", "unusual_location"}

\* technique ids handed to the planner: looked up with priority 2, looked up
\* with priority 1, and without an entry in the lookup
PlannedTechniqueIds == {"T1078", "T1068", "T1110"}

TechniqueLists ==
    UNION { [1..n -> { [technique_id |-> id] : id \in PlannedTechniqueIds }] :
            n \in 0..MaxTechniques }

\* mitigation_engine.generate_strategies(anomaly_type, risk_level, mitre_techniques)
CallGenerateStrategies ==
    /\ NotCalled
    /\ \E anomaly_type \in PlannedCategories, risk_level \in RiskLevels,
             mitre_techniques \in TechniqueLists :
           LET r == generate_strategies(engine, anomaly_type, risk_level, mitre_techniques)
           IN  /\ probe' = [fn |-> "generate_strategies", anomaly_type |-> anomaly_type,
                             risk_level |-> risk_level,
                             mitre_techniques |-> mitre_techniques, out |-> r.out]
               /\ engine' = r.engine
               /\ UNCHANGED << storeVars, trainVars, is_isolated, lastCall, lastLoad,
                               script, scriptRuns, agent >>

PlanNext ==
    \/ CallGenerateStrategies

SpecPlan == Init /\ [][PlanNext]_vars

\* ================================================================ properties
IngestionOps == {"create_event", "receive_batch_events"}

Recorded(event_id, employee_id) ==
    \E i \in 1..Len(events) :
        events[i].id = event_id /\ events[i].employee_id = employee_id

\* an ingestion step that stored an event of the given kind
Ingested == Len(events') > Len(events)
IngestedPolicy == Ingested /\ events'[Len(events')].event_type = "policy_violation"
IngestedOther == Ingested /\ events'[Len(events')].event_type # "policy_violation"

\* C1: an ingestion call for an existing employee returns success and its
\* event is in the store, whichever pipeline step raised (feature extraction,
\* score, explain, map, plan): the failure is contained.
C1_FailureContained ==
    (lastCall.op \in IngestionOps /\ lastCall.employee \in Employees)
        => /\ lastCall.status = 200
           /\ Recorded(lastCall.event_id, lastCall.employee)

\* a pipeline step raised during create_event, after a model was trained
C1_Witness ==
    /\ lastCall.op = "create_event"
    /\ lastCall.raised \in {"explain", "map", "plan"}
    /\ lastCall.status = 200
    /\ Recorded(lastCall.event_id, lastCall.employee)

\* C2: with no artifact on disk, scoring ends in the model-not-trained error,
\* and ingesting a non-policy event stores the event, answers with success and
\* leaves the Anomaly, MitreMapping and MitigationStrategy collections as
\* they were.
C2_NoModelNoFindings ==
    /\ [](~modelFile.exists =>
            \A raw \in RawScores :
                predict_single(load_model(modelFile), TRUE, raw).error = "ModelNotTrained")
    /\ [][(IngestedOther /\ ~modelFile.exists) =>
            /\ lastCall'.status = 200
            /\ lastCall'.created = 0
            /\ anomalies' = anomalies
            /\ mitre_mappings' = mitre_mappings
            /\ mitigation_strategies' = mitigation_strategies]_vars

\* a login event ingested while no artifact exists, the scorer being ready
\* to flag it
C2_Witness ==
    /\ lastCall.op = "create_event"
    /\ lastCall.event_type = "login"
    /\ lastCall.consulted
    /\ lastCall.status = 200
    /\ ~modelFile.exists
    /\ Len(events) = 1
    /\ anomalies = {}

\* C3: ingesting a policy_violation event for an existing employee creates
\* exactly one Anomaly (critical, risk 100, open) and exactly one MitreMapping
\* that references it.
C3_PolicyFinding ==
    [][IngestedPolicy =>
         \E a \in anomalies' \ anomalies :
            /\ anomalies' = anomalies \cup {a}
            /\ a.risk_level = "critical" /\ a.risk_score = 100 /\ a.status = "open"
            /\ \E m \in mitre_mappings' \ mitre_mappings :
                  /\ mitre_mappings' = mitre_mappings \cup {m}
                  /\ m.anomaly_id = a.id]_vars

\* C4: the policy path never loads or queries the model, and it produces its
\* policy_violation Anomaly whether or not an artifact exists.
C4_PolicySkipsModel ==
    [][IngestedPolicy =>
         /\ ~lastCall'.consulted
         /\ \E a \in anomalies' \ anomalies :
               a.anomaly_type = "policy_violation" /\ a.id = lastCall'.created]_vars

\* the transitions of the Finding life cycle
AllowedTransitions ==
    { <<"open", "investigating">>, <<"investigating", "resolved">>,
      <<"investigating", "false_positive">> }

\* C5: the status of an Anomaly changes only along open -> investigating,
\* investigating -> resolved, investigating -> false_positive, and no other
\* status value is ever reached.
C5_StatusMachine ==
    /\ [](\A a \in anomalies : a.status \in FindingStatuses)
    /\ [][\A a \in anomalies, b \in anomalies' :
            (a.id = b.id /\ a.status # b.status)
                => << a.status, b.status >> \in AllowedTransitions]_vars

\* C6: an Anomaly created by an ingestion pipeline has status open, and an
\* ingestion pipeline leaves every existing Anomaly (its status included) as
\* it was.
C6_PipelineOpensOnly ==
    [][Ingested =>
         /\ anomalies \subseteq anomalies'
         /\ \A b \in anomalies' \ anomalies : b.status = "open"]_vars

\* an ingestion has just created a finding while another finding had already
\* left the open state
C6_Witness ==
    /\ lastCall.op \in IngestionOps
    /\ \E a, b \in anomalies :
          /\ a.id = lastCall.created /\ a.status = "open"
          /\ b.id # a.id /\ b.status # "open"

References(docs) ==
    \A d \in docs : Cardinality({ a \in anomalies : a.id = d.anomaly_id }) = 1

\* C7: every MitreMapping and every MitigationStrategy references exactly one
\* existing Anomaly, whatever operations and maintenance scripts have run.
C7_NoOrphans == References(mitre_mappings) /\ References(mitigation_strategies)

\* C8: a load_model that happens while a save is replacing a complete
\* artifact yields a complete artifact (the previous or the new one), never
\* a missing or unreadable one.
C8_AtomicSwap ==
    (lastLoad.happened /\ lastLoad.during_save /\ lastLoad.had_previous)
        => /\ lastLoad.ok
           /\ \E t \in Trainers : lastLoad.gen \in {trainer[t].before.gen, trainer[t].gen}

\* C9: at most one training request is in progress (computing fingerprints,
\* fitting or writing) at any time.
C9_SingleWriter == Cardinality({ t \in Trainers : InProgress(t) }) <= 1

\* C10: a training request that failed (standardize, forest fit, cluster fit
\* or write) leaves on disk exactly the file that was there when it started
\* training.
C10_FailedRunKeepsArtifact ==
    \A t \in Trainers : trainer[t].pc = "failed" => trainer[t].after = trainer[t].before

\* C11: a training request over fewer fingerprints than the clusters it asks
\* for is refused before training starts: it never enters the training steps
\* (so it cannot fail inside them) and never opens the artifact for writing.
C11_SmallPopulationRefused ==
    \A t \in Trainers :
        (trainer[t].pc # "idle" /\ trainer[t].n < NClusters)
            => trainer[t].pc \in {"fingerprints", "refused"}

FeatureCalls == {"calculate_behavioral_fingerprint", "extract_features_from_recent_events"}

\* C12: for an existing employee with no event inside the window (days for
\* the baseline fingerprint, hours for the recent one), both extractors
\* return exactly the default fingerprint, whatever the baseline location.
C12_EmptyWindowDefault ==
    (/\ probe.fn \in FeatureCalls
     /\ probe.employee_id \in Employees
     /\ InWindow(probe.history, probe.employee_id, probe.window_hours) = << >>)
        => probe.out = get_default_fingerprint

\* the employee has stored events, all of them older than the window, and a
\* baseline location is set
C12_Witness ==
    /\ probe.fn = "calculate_behavioral_fingerprint"
    /\ probe.employee_id \in Employees
    /\ probe.baseline_location # NoLocation
    /\ \E i \in 1..Len(probe.history) : probe.history[i].employee_id = probe.employee_id
    /\ InWindow(probe.history, probe.employee_id, probe.window_hours) = << >>
    /\ probe.out = get_default_fingerprint

Scored == probe.fn = "predict_single" /\ probe.out.error = "none"

\* C13: predict_single returns risk_score = clip(round((0.5 - s) * 100), 0, 100):
\* the scaled value is rounded to the nearest integer before clipping.
C13_RoundedRisk ==
    Scored => probe.out.risk_score = Clip(Round10(500 - probe.raw), 0, 100)

\* C13 as the code has it: the scaled value is clipped to [0, 100] and then
\* truncated, so risk_score is the largest integer not above the clipped value.
C13_TruncatedRisk ==
    Scored =>
        /\ probe.out.risk_score \in RiskScores
        /\ 10 * probe.out.risk_score <= Clip(500 - probe.raw, 0, 1000)
        /\ Clip(500 - probe.raw, 0, 1000) < 10 * probe.out.risk_score + 10

\* a raw score of -0.306 scales to 80.6 and is reported as 80
C13_Witness == Scored /\ probe.raw = -306 /\ probe.out.risk_score = 80

\* C14: risk_score is non-increasing in the raw score and is an integer in
\* [0, 100] for every raw score, also outside [-0.5, 0.5].
C14_RiskMonotoneBounded ==
    Scored =>
        /\ probe.out.risk_score \in RiskScores
        /\ \A s2 \in RawScoreRange :
              probe.raw <= s2 => probe.out.risk_score >= calculate_risk_score(s2)

\* a raw score below -0.5 is scored 100
C14_Witness == Scored /\ probe.raw < -500 /\ probe.out.risk_score = 100

\* C15: for every risk_score in 0..100 the level is one of low, medium, high,
\* critical: low iff below 40, medium iff in 40..59, high iff in 60..79,
\* critical iff 80 or more.
C15_RiskLevelThresholds ==
    probe.fn = "_get_risk_level" =>
        LET r == probe.risk_score
        IN  /\ probe.out \in RiskLevels
            /\ probe.out = "low" <=> r < 40
            /\ probe.out = "medium" <=> (40 <= r /\ r < 60)
            /\ probe.out = "high" <=> (60 <= r /\ r < 80)
            /\ probe.out = "critical" <=> r >= 80

\* the lowest critical score
C15_Witness ==
    probe.fn = "_get_risk_level" /\ probe.risk_score = 80 /\ probe.out = "critical"

RiskConsistent(a) ==
    /\ a.risk_score = calculate_risk_score(a.anomaly_score)
    /\ a.risk_level = get_risk_level(a.risk_score)

\* C16: every stored Anomaly created by an ingestion pipeline has the risk
\* mapping of its stored raw score as risk_score and the threshold mapping of
\* its risk_score as risk_level; the values the policy bypass constructs
\* (raw -1.0, risk 100, critical) agree with the same mappings.
C16_FindingRiskConsistent ==
    /\ \A a \in anomalies : RiskConsistent(a)
    /\ \A e \in Employees : RiskConsistent(PolicyAnomaly(nextId, e, Len(events)))

\* an ingestion has just stored a finding scored -0.306: risk 80, critical
C16_Witness ==
    /\ lastCall.op \in IngestionOps
    /\ \E a \in anomalies :
          /\ a.id = lastCall.created
          /\ a.anomaly_score = -306 /\ a.risk_score = 80 /\ a.risk_level = "critical"

Explained == probe.fn = "explain"

DeclarationIndex(name) == CHOOSE i \in 1..Len(FeatureNames) : FeatureNames[i] = name

\* C17: explain returns a top_features list that is non-empty, at most 5
\* long, ordered by non-increasing absolute contribution and that leaves out
\* no feature of larger absolute contribution than one it contains, whether
\* the attribution works, is unavailable or raises.
C17_TopFeaturesRanked ==
    Explained =>
        LET top    == probe.out.top_features
            values == probe.out.shap_values
            listed == { top[k].feature : k \in 1..Len(top) }
        IN  /\ Len(top) >= 1 /\ Len(top) <= 5
            /\ \A k \in 1..Len(top) : top[k].shap_value = values[top[k].feature]
            /\ \A k \in 1..(Len(top) - 1) :
                  Abs(top[k].shap_value) >= Abs(top[k + 1].shap_value)
            /\ \A name \in FeatureNameSet \ listed, k \in 1..Len(top) :
                  Abs(values[name]) <= Abs(top[k].shap_value)

\* the attribution worked and returned contributions of both signs
C17_Witness ==
    /\ Explained /\ probe.mode = "shap"
    /\ Len(probe.out.top_features) = 5
    /\ probe.out.top_features[1].shap_value = -300
    /\ probe.out.top_features[2].shap_value = 150

\* C18: in fallback mode features of equal absolute pseudo contribution are
\* ranked in declaration order; the reference fingerprint (all deviations
\* zero) yields exactly the first five declared features.
C18_FallbackTiesInOrder ==
    (Explained /\ probe.mode # "shap") =>
        LET top == probe.out.top_features
        IN  /\ \A k \in 1..(Len(top) - 1) :
                  Abs(top[k].shap_value) = Abs(top[k + 1].shap_value)
                      => DeclarationIndex(top[k].feature) < DeclarationIndex(top[k + 1].feature)
            /\ probe.features = normal_values =>
                  [k \in 1..Len(top) |-> top[k].feature] = SubSeq(FeatureNames, 1, 5)

\* the reference fingerprint explained without the attribution
C18_Witness ==
    /\ Explained /\ probe.mode = "unavailable"
    /\ probe.features = normal_values
    /\ probe.out.top_features[1].feature = "avg_login_hour"
    /\ Len(probe.out.top_features) = 5

\* C19: in fallback mode the fingerprint with avg_login_hour 3.0 and every
\* other feature at its reference value has avg_login_hour as top feature,
\* with a positive contribution reported as increasing risk.
C19_NightLoginIncreasesRisk ==
    (/\ Explained /\ probe.mode # "shap"
     /\ probe.features = [normal_values EXCEPT !.avg_login_hour = 3000])
        => /\ probe.out.top_features[1].feature = "avg_login_hour"
           /\ probe.out.top_features[1].shap_value > 0
           /\ probe.out.top_features[1].impact = "increases"

Mapped == probe.fn = "map_anomaly"

\* position of a technique in the catalogue
CatalogIndex(technique_id) ==
    CHOOSE i \in 1..Len(technique_database) :
        technique_database[i].technique_id = technique_id

\* C20: for every category, list of attributed features and risk score,
\* map_anomaly returns only techniques whose confidence is strictly greater
\* than 0.3, ordered by non-increasing confidence, techniques of equal
\* confidence in catalogue order, and every returned confidence lies in
\* (0.3, 1.0].
C20_MappingsFilteredAndRanked ==
    Mapped =>
        LET out   == probe.out
            names == FeatureNamesOf(probe.top_features)
        IN  /\ \A i \in 1..Len(out) :
                  /\ out[i].confidence =
                        calculate_confidence(probe.anomaly_type, names,
                            technique_database[CatalogIndex(out[i].technique_id)].indicators,
                            probe.risk_score)
                  /\ out[i].confidence > InclusionThreshold
                  /\ out[i].confidence <= ConfidenceOne
            /\ \A i, j \in 1..Len(out) :
                  i < j =>
                     /\ out[i].confidence >= out[j].confidence
                     /\ out[i].confidence = out[j].confidence
                           => CatalogIndex(out[i].technique_id)
                                < CatalogIndex(out[j].technique_id)

\* a call that leaves a technique out, moves a later technique of the
\* catalogue ahead of an earlier one and returns two of equal confidence
C20_Witness ==
    /\ Mapped
    /\ Len(probe.out) < Len(technique_database)
    /\ \E i, j \in 1..Len(probe.out) :
          /\ i < j
          /\ probe.out[i].confidence > probe.out[j].confidence
          /\ CatalogIndex(probe.out[i].technique_id) > CatalogIndex(probe.out[j].technique_id)
    /\ \E i, j \in 1..Len(probe.out) :
          i < j /\ probe.out[i].confidence = probe.out[j].confidence

Planned == probe.fn = "generate_strategies"

\* C21: for every category, risk_level and technique list, the plan returned
\* by generate_strategies is ordered by non-decreasing priority, and when
\* risk_level is 'critical' its first action is the escalation action, even
\* when the category template or an appended technique action also has
\* priority 1.
C21_PlanOrderedEscalationFirst ==
    Planned =>
        /\ \A i, j \in 1..Len(probe.out) :
              i < j => probe.out[i].priority <= probe.out[j].priority
        /\ probe.risk_level = "critical" => probe.out[1] = EscalateAction

\* a critical plan whose template and whose appended technique action both
\* have priority 1
C21_Witness ==
    /\ Planned
    /\ probe.risk_level = "critical"
    /\ probe.anomaly_type \in TemplateCategories
    /\ TemplateFor(probe.anomaly_type)[1].priority = 1
    /\ \E i \in 2..Len(probe.out) : probe.out[i] = MitreMitigationFor("T1068")
    /\ probe.out[1] = EscalateAction
    /\ probe.out[2].priority = 1

\* the entries of a list that have priority p, in the order of the list
WithPriority(strategies, p) == SelectSeq(strategies, LAMBDA x : x.priority = p)

\* the entries the plan is made of, in the order they are put together: the
\* risk action, the template or the generic default, the technique actions
Constructed(anomaly_type, risk_level, mitre_techniques) ==
    (IF risk_level = "critical" THEN << EscalateAction >>
     ELSE IF risk_level = "high" THEN << AlertAction >> ELSE << >>)
    \o (IF anomaly_type \in TemplateCategories
        THEN TemplateFor(anomaly_type) ELSE DefaultMitigations)
    \o (IF Len(mitre_techniques) >= 1
           /\ mitre_techniques[1].technique_id \in MitreMitigationIds
        THEN << MitreMitigationFor(mitre_techniques[1].technique_id) >> ELSE << >>)
    \o (IF Len(mitre_techniques) >= 2
           /\ mitre_techniques[2].technique_id \in MitreMitigationIds
        THEN << MitreMitigationFor(mitre_techniques[2].technique_id) >> ELSE << >>)

\* C24: the plan returned by generate_strategies contains exactly the entries
\* of the category's template (or the 3-step generic default), plus one
\* escalation action iff risk_level is critical or one alert action iff it is
\* high, plus the technique action of each of the first two technique
\* mappings that has a lookup entry; entries of equal priority keep that
\* construction order, and the calls leave the template tables unchanged.
C24_PlanContents ==
    /\ engine = NewEngine
    /\ Len(DefaultMitigations) = 3
    /\ Planned =>
          LET made == Constructed(probe.anomaly_type, probe.risk_level,
                                  probe.mitre_techniques)
          IN  /\ Len(probe.out) = Len(made)
              /\ \A p \in { made[i].priority : i \in 1..Len(made) } :
                    WithPriority(probe.out, p) = WithPriority(made, p)

\* a high-risk plan for a category without a template, asked with three
\* techniques: the first has no lookup entry, the second and third have one
C24_Witness ==
    /\ Planned
    /\ probe.risk_level = "high"
    /\ probe.anomaly_type \notin TemplateCategories
    /\ Len(probe.mitre_techniques) = 3
    /\ probe.mitre_techniques[1].technique_id \notin MitreMitigationIds
    /\ probe.mitre_techniques[2].technique_id = "T1078"
    /\ probe.mitre_techniques[3].technique_id = "T1068"
    /\ Len(probe.out) = 5
    /\ probe.out[1] = AlertAction
    /\ \A i \in 1..Len(probe.out) : probe.out[i] # MitreMitigationFor("T1068")

\* the indicators of a technique that some name of the list matches
IndicatorsMatched(feature_names, indicators) ==
    Cardinality({ i \in 1..Len(indicators) :
                    \E k \in 1..Len(feature_names) :
                       \/ IsSubstring(indicators[i], feature_names[k])
                       \/ IsSubstring(feature_names[k], indicators[i]) })

\* the feature term of a technique as the code adds it up
FeatureTerm(feature_names, indicators) ==
    (FeatureMatchCount(feature_names, indicators) * FeatureWeight) \div Len(indicators)

StatusReplied == lastCall.op = "get_agent_status" /\ lastCall.status = 200

\* C22: the isolation state the agent status endpoint reports equals the
\* identity's manual isolation flag only: it is false no matter how many open
\* critical or high Findings the identity has, becomes true after an isolate
\* command and false again after a restore command; nothing else moves the flag.
C22_StatusIsManualFlag ==
    /\ [](StatusReplied =>
             /\ lastCall.isolated = is_isolated[lastCall.employee]
             /\ lastCall.active_threats = ActiveThreats(lastCall.employee))
    /\ [][\A e \in Employees :
             /\ get_agent_status(e) => lastCall'.isolated = is_isolated[e]
             /\ isolate_agent(e) => is_isolated'[e]
             /\ restore_agent(e) => ~is_isolated'[e]
             /\ is_isolated'[e] # is_isolated[e] => isolate_agent(e) \/ restore_agent(e)]_vars

\* the endpoint answers "not isolated" for an identity with an open critical
\* or high Finding
C22_Witness ==
    /\ StatusReplied
    /\ lastCall.active_threats > 0
    /\ ~lastCall.isolated

\* a MitigationStrategy document that carries the four strategy fields
WellFormed(m) ==
    /\ m.priority \in 1..5
    /\ m.category \in {"immediate", "short_term", "long_term"}
    /\ m.action # "none"
    /\ m.description # "none"

\* C25: the policy_violation bypass also persists exactly one hard-coded
\* MitigationStrategy that references the new Anomaly and is well formed
\* (priority, category, action, description); the bypass never ends with an
\* Anomaly that has no mitigation strategy.
C25_PolicyMitigation ==
    [][IngestedPolicy =>
         /\ \E m \in mitigation_strategies' \ mitigation_strategies :
               /\ mitigation_strategies' = mitigation_strategies \cup {m}
               /\ m.anomaly_id = lastCall'.created
               /\ \E a \in anomalies' \ anomalies : a.id = m.anomaly_id
               /\ WellFormed(m)
         /\ \A a \in anomalies' \ anomalies :
               \E m \in mitigation_strategies' : m.anomaly_id = a.id]_vars

\* C26: every Anomaly the statistical pipeline creates, on any ingestion path
\* (event ingestion and agent batch ingestion), has the category that
\* determine_anomaly_type's lookup gives for its highest-contribution feature
\* ('behavioral_anomaly' for a feature not in the table), so the same top
\* feature yields the same category on every path.
C26_CategoryFromOneLookup ==
    \A a \in anomalies :
        a.top_feature \in FeatureNameSet =>
            a.anomaly_type = determine_anomaly_type(a.top_feature)

HoursPerDay == 24
HoursPerWeek == 168

\* matching events of the call's window, by rate feature
Matching(feature) ==
    LET evs == InWindow(probe.history, probe.employee_id, probe.window_hours)
        Hit(e) ==
            CASE feature = "file_access_rate" -> e.event_type = "file_access"
              [] feature = "sensitive_file_access_rate" ->
                     e.event_type = "file_access" /\ e.sensitive
              [] feature = "privilege_escalation_rate" ->
                     e.event_type = "privilege_escalation"
              [] feature = "network_activity_volume" -> e.event_type = "network"
              [] feature = "failed_login_rate" -> e.event_type = "login" /\ ~e.success
              [] feature = "firewall_change_rate" -> e.event_type = "firewall"
    IN  Len(SelectSeq(evs, Hit))

DailyRates ==
    {"file_access_rate", "sensitive_file_access_rate", "privilege_escalation_rate",
     "network_activity_volume", "failed_login_rate"}

\* C27: for every window length, recent windows shorter than 24 hours
\* included, each per-day rate feature is the number of matching events in
\* the window divided by the requested window length in days, and the
\* firewall rate is that number divided by the window length in weeks.
C27_RatesPerRequestedWindow ==
    (/\ probe.fn \in FeatureCalls
     /\ probe.employee_id \in Employees
     /\ InWindow(probe.history, probe.employee_id, probe.window_hours) # << >>)
        => /\ \A f \in DailyRates :
                 probe.out[f] = (Milli(Matching(f)) * HoursPerDay) \div probe.window_hours
           /\ probe.out.firewall_change_rate =
                 (Milli(Matching("firewall_change_rate")) * HoursPerWeek) \div probe.window_hours

\* what a strategy is created with and keeps
SamePlanFields(m, n) ==
    /\ n.anomaly_id = m.anomaly_id
    /\ n.priority = m.priority
    /\ n.category = m.category
    /\ n.action = m.action
    /\ n.description = m.description

Belongs(anomaly_id, strategy_id) ==
    \E m \in mitigation_strategies : m.id = strategy_id /\ m.anomaly_id = anomaly_id

\* C28: an implement request changes only implemented, implemented_at and
\* implemented_by of exactly the strategy it addresses, and only when that
\* strategy belongs to the anomaly it addresses; otherwise it answers 404 and
\* changes nothing.  No step of any operation changes the priority,
\* category, action, description or anomaly_id of a stored strategy, and no
\* step but a successful implement request changes a stored strategy at all.
C28_OnlyImplementationStatusChanges ==
    /\ [][\A a \in AddressedAnomalyIds, sid \in AddressedStrategyIds, by \in Implementers :
             implement_mitigation(a, sid, by) =>
                 IF Belongs(a, sid)
                 THEN /\ lastCall'.status = 200
                      /\ \A m \in mitigation_strategies :
                            IF m.id = sid
                            THEN Implemented(m, by) \in mitigation_strategies'
                            ELSE m \in mitigation_strategies'
                      /\ Cardinality(mitigation_strategies') = Cardinality(mitigation_strategies)
                 ELSE /\ lastCall'.status = 404
                      /\ mitigation_strategies' = mitigation_strategies]_vars
    /\ [][\A m \in mitigation_strategies, n \in mitigation_strategies' :
             n.id = m.id =>
                 /\ SamePlanFields(m, n)
                 /\ n # m => /\ lastCall'.op = "implement_mitigation"
                             /\ lastCall'.status = 200
                             /\ n = Implemented(m, n.implemented_by)]_vars

\* the first action of a detected finding's plan is implemented by the
\* analyst, the second is not, and neither is the action of another finding
C28_Witness ==
    /\ lastCall.op = "implement_mitigation"
    /\ lastCall.status = 200
    /\ \E m, n, o \in mitigation_strategies :
          /\ m.implemented /\ m.implemented_by \in Implementers
          /\ m.implemented_at = ImplementedNow
          /\ n.anomaly_id = m.anomaly_id /\ ~n.implemented
          /\ o.anomaly_id # m.anomaly_id /\ ~o.implemented

Moved(a) == [a EXCEPT !.status = "investigating"]

\* C29: an isolate command sets the employee's is_isolated flag and moves
\* exactly the open anomalies of that employee to investigating: anomalies of
\* other employees and anomalies in any other status stay as they are, and
\* no other employee's flag changes.  A restore command clears the flag and
\* leaves every anomaly as it is (investigating ones stay investigating).
C29_IsolateMovesOpenFindings ==
    [][\A e \in Employees :
          /\ isolate_agent(e) =>
                /\ is_isolated' = [is_isolated EXCEPT ![e] = TRUE]
                /\ \A a \in anomalies :
                      IF a.employee_id = e /\ a.status = "open"
                      THEN Moved(a) \in anomalies' /\ a \notin anomalies'
                      ELSE a \in anomalies'
                /\ { a.id : a \in anomalies' } = AnomalyIds
          /\ restore_agent(e) =>
                /\ is_isolated' = [is_isolated EXCEPT ![e] = FALSE]
                /\ anomalies' = anomalies]_vars

\* e1 was isolated and restored: its finding is still investigating, e1 is
\* not isolated, and the finding of e2 is still open
C29_Witness ==
    /\ ~is_isolated[ClearedEmployee]
    /\ \E a, b \in anomalies :
          /\ a.employee_id = ClearedEmployee /\ a.status = "investigating"
          /\ b.employee_id # ClearedEmployee /\ b.status = "open"

Queued == { agent.event_queue[i] : i \in 1..Len(agent.event_queue) }

\* C30: while the agent runs, every event it collected is either among the
\* events a 200 answer accepted or on the queue, once and without an
\* employee_id; a send_events call takes at most batch_size events off the
\* queue, and each event it took is accepted (answer 200) or back on the
\* queue without its employee_id when the call returns.
C30_NoEventLost ==
    /\ [](agent.running =>
             /\ \A n \in 1..agent.collected :
                   \/ \E e \in agent.accepted : e.seq = n
                   \/ \E e \in Queued : e.seq = n
             /\ \A e \in Queued : ~e.has_employee_id
             /\ Cardinality(Queued) = Len(agent.event_queue))
    /\ [][\A outcome \in SendOutcomes :
             send_events(outcome) =>
                 LET removed == agent'.sent.removed
                 IN  /\ removed <= batch_size
                     /\ removed <= Len(agent.event_queue)
                     /\ \A i \in 1..removed :
                           IF outcome = "ok"
                           THEN [agent.event_queue[i] EXCEPT !.has_employee_id = TRUE]
                                    \in agent'.accepted
                           ELSE agent.event_queue[i] \in
                                    { agent'.event_queue[j] : j \in 1..Len(agent'.event_queue) }]_vars

\* a full batch was accepted after a failed send had put events back: an
\* event collected earlier than an accepted one is still queued
C30_Witness ==
    /\ agent.running
    /\ agent.sent.outcome = "ok"
    /\ agent.sent.removed = batch_size
    /\ \E e \in Queued, a \in agent.accepted : e.seq < a.seq /\ ~e.has_employee_id
====
